---------------------------- MODULE Spec2Model ----------------------------
(***************************************************************************)
(* A model of the pairing core of hassmpris: the timed dictionary          *)
(* (hassmpris/security/util.py), the MASC servicer                         *)
(* (hassmpris/security/masc.py) and the ECDH servicer                      *)
(* (hassmpris/security/ecdh.py), and of two parts of the agent: the peer   *)
(* verification UI (hassmpris_agent/verify.py) and the update streams of   *)
(* the MPRIS servicer (hassmpris_agent/mpris/grpc.py).                     *)
(*                                                                         *)
(* gRPC serves every call on a worker thread of a thread pool, so each     *)
(* handler is a process whose program counter walks through the handler's  *)
(* statements; the statements that touch a TimedDict are separate steps so *)
(* that the lock, and not the model, is what serialises them.              *)
(***************************************************************************)
EXTENDS Integers, Sequences, FiniteSets, TLC

(***************************************************************************)
(* Bounds of the model.                                                    *)
(***************************************************************************)
\* The clock stops advancing once it has reached MaxTime.
MaxTime == 61
\* Number of add_ecdh calls the application makes in one behaviour.
MaxAdds == 2
\* Number of IssueCertificate calls served in one behaviour.
MaxCalls == 2
\* Number of ClientPubkey calls served in one behaviour.
MaxPubkeys == 2
\* Number of ServerPubkey calls served in one behaviour.
MaxServerCalls == 2
\* A TimedDict on its own: the latest time, the number of set, get,
\* contains and del operations in one behaviour and the largest size_limit;
\* there is one key more than that, and the timeout is such that an entry
\* set at time 0 has timed out at the latest time.
MaxStoreTime == 2
MaxOps == 5
MaxCapacity == 3
MaxKeys == MaxCapacity + 1
\* Number of PeerVerificationUI.verify calls in one behaviour.
MaxVerifies == 3
StoreTimeout == MaxStoreTime - 1

\* The amounts by which the clock advances between two steps (seconds).
TickDeltas == {60, 61}

\* gRPC worker threads serving calls concurrently.
Threads == {1, 2}
\* The thread of the application that calls add_ecdh.
AppThread == 0
\* A further worker of the pool, which serves the ClientPubkey calls.
PubkeyThread == 3
\* No thread: the owner of a free lock.
NoThread == -1

\* Peer identities as context.peer() gives them.
PeerIds == {"p1", "p2"}
\* The sentinel key consulted as a fallback (masc.py line 211).
Star == "*"
\* Keys of the pending store.
EcdhKeys == PeerIds \cup {Star}

\* Python's None, as the value of a pending entry and as the default `key`
\* argument of the trimming method.
None == "None"
\* Derived keys of completed ECDH exchanges.
DerivedKeys == {"K1", "K2"}
\* A local variable that has not been assigned.
Unset == "unset"

(***************************************************************************)
(* Program constants.                                                      *)
(***************************************************************************)
\* self.ecdhs = TimedDict(60, 4)
MascTimeout == 60
MascSizeLimit == 4
\* self.peers = TimedDict(60, 16)
EcdhTimeout == 60
EcdhSizeLimit == 16
\* ChaCha20Poly1305 nonces are 12 bytes long.
NonceLen == 12

VARIABLES
    now,        \* time.time(), in seconds
    ecdhs,      \* MASCServicer.ecdhs: the dict, in insertion order
    ecdhsLock,  \* MASCServicer.ecdhs.lock: the RLock's owner and depth
    ic,         \* per worker thread: the IssueCertificate call it serves
    reg,        \* history: per key, its latest add_ecdh and what became of it
    nAdds,      \* number of add_ecdh calls so far
    nCalls,     \* number of IssueCertificate calls so far
    peers,      \* ECDHServicer.peers: the dict, in insertion order
    peersLock,  \* ECDHServicer.peers.lock
    sp,         \* per worker thread: the ServerPubkey call it serves
    preg,       \* history: per peer, its latest ClientPubkey and what became of it
    nPubkeys,   \* number of ClientPubkey calls so far
    nServerCalls, \* number of ServerPubkey calls so far
    store,      \* a TimedDict on its own: the dict, in insertion order
    capacity,      \* its size_limit
    last,       \* history: the latest operation on it and its outcome
    lastSet,    \* history: per key, the latest completed set and the time
                \* of the one before
    nOps,       \* number of operations on it so far
    mc,         \* per worker thread: the MASCClient.MASC() whose call it serves
    ec,         \* per peer: the peer's ECDHClient.ECDH()
    wire,       \* history: the messages of the ECDH exchange sent so far
    verifications,      \* PeerVerificationUI.verifications
    verification_queue, \* PeerVerificationUI.verification_queue
    blocked,            \* PeerVerificationUI.blocked
    idle,               \* the callbacks given to GLib.idle_add, not yet run
    open_notifications, \* PeerVerificationUI.open_notifications
    dialogs,            \* the PeerVerificationMessageDialogs on screen
    vf,                 \* per worker thread: the verify() call it makes
    accepts,            \* history: the (peer, key) pairs accept() was called with
    nVerifies,          \* number of verify() calls so far
    mpris,              \* whether the MPRISServicer has its mpris attribute
    queues,             \* MPRISServicer.queues: the streams registered
    up,                 \* per stream: the Updates call and its queue
    del                 \* per caller of __del__: how far it has come

\* The MASC servicer's state and the ECDH servicer's state.
mascVars == <<ecdhs, ecdhsLock, ic, reg, nAdds, nCalls>>

ecdhVars == <<peers, peersLock, sp, preg, nPubkeys, nServerCalls>>

\* A TimedDict on its own.
storeVars == <<store, capacity, last, lastSet, nOps>>

\* The initiators.
clientVars == <<mc, ec, wire>>

\* The agent: the verification UI and the MPRIS servicer.
agentVars ==
    <<verifications, verification_queue, blocked, idle, open_notifications,
      dialogs, vf, accepts, nVerifies, mpris, queues, up, del>>

vars == <<now, mascVars, ecdhVars, storeVars, clientVars, agentVars>>

(***************************************************************************)
(* dict: a Python dict keeps its keys in insertion order; assigning to an  *)
(* existing key keeps the key's position.  An item is [k, then, v]: the    *)
(* key and the (timestamp, value) pair TimedDict stores under it.          *)
(***************************************************************************)
DictContains(d, key) == \E i \in 1..Len(d) : d[i].k = key

DictGetItem(d, key) == d[CHOOSE i \in 1..Len(d) : d[i].k = key]

DictDelItemKeeps(d, key) == d

DictDelItemClears(d, key) == <<>>

DictDelItem(d, key) == SelectSeq(d, LAMBDA e : e.k # key)

DictSetItemKeepsFirst(d, key, then, value) ==
    IF DictContains(d, key) THEN d
    ELSE Append(d, [k |-> key, then |-> then, v |-> value])

DictSetItem(d, key, then, value) ==
    IF DictContains(d, key)
    THEN [i \in 1..Len(d) |->
            IF d[i].k = key THEN [k |-> key, then |-> then, v |-> value]
                            ELSE d[i]]
    ELSE Append(d, [k |-> key, then |-> then, v |-> value])

(***************************************************************************)
(* threading.RLock: [owner, depth].                                        *)
(***************************************************************************)
FreeLock == [owner |-> NoThread, depth |-> 0]

LockAlwaysAcquirable(l, t) == TRUE

LockAcquirable(l, t) == l.owner = NoThread \/ l.owner = t

LockAcquire(l, t) == [owner |-> t, depth |-> l.depth + 1]

LockReleaseNever(l) == l

LockRelease(l) ==
    IF l.depth <= 1 THEN FreeLock ELSE [l EXCEPT !.depth = l.depth - 1]

(***************************************************************************)
(* TimedDict.__trim_timed_out_and_oversized                                *)
(***************************************************************************)
TrimTimedOutNever(d, t, timeout) == d

TrimTimedOutReversed(d, t, timeout) ==
    SelectSeq(d, LAMBDA e : ~(t - e.then < timeout))

TrimTimedOutAtTimeout(d, t, timeout) ==
    SelectSeq(d, LAMBDA e : ~(t - e.then >= timeout))

TrimTimedOut(d, t, timeout) ==
    SelectSeq(d, LAMBDA e : ~(t - e.then > timeout))

TrimOversizedNever(d, size_limit) == d

TrimOversizedNewestFirst(d, size_limit) ==
    IF Len(d) > size_limit /\ size_limit >= 0 THEN SubSeq(d, 1, size_limit)
                                              ELSE d

RECURSIVE TrimOversized(_, _)
TrimOversized(d, size_limit) ==
    IF Len(d) > size_limit THEN TrimOversized(Tail(d), size_limit) ELSE d

Trim(d, t, minusone, key, timeout, size_limit) ==
    LET live == TrimTimedOut(d, t, timeout)
        minusone2 == IF minusone /\ DictContains(live, key) THEN FALSE
                                                             ELSE minusone
        limit == size_limit - (IF minusone2 THEN 1 ELSE 0)
    IN  TrimOversized(live, limit)

\* TimedDict.__setitem__: the callers never pass `key` to the trimming.
TimedSetItem(d, key, value, t, timeout, size_limit) ==
    DictSetItem(Trim(d, t, TRUE, None, timeout, size_limit), key, t, value)

TimedGetTrimRefreshes(d, t, timeout, size_limit) ==
    LET x == Trim(d, t, FALSE, None, timeout, size_limit)
    IN  [i \in 1..Len(x) |-> [x[i] EXCEPT !.then = t]]

\* TimedDict.__getitem__, first half: the dict after the trimming.
TimedGetTrim(d, t, timeout, size_limit) ==
    Trim(d, t, FALSE, None, timeout, size_limit)

(***************************************************************************)
(* ChaCha20Poly1305.  A ciphertext is abstracted to what decides whether   *)
(* it opens: the key, nonce and associated data it was sealed with, the    *)
(* plaintext, and whether its bytes are still the ones encrypt returned.   *)
(* A nonce is [id, len].                                                   *)
(***************************************************************************)
Nonce(id) == [id |-> id, len |-> NonceLen]

NoNonce == [id |-> Unset, len |-> 0]

ShortNonce == [id |-> "n1", len |-> NonceLen - 4]

ChaChaEncrypt(key, nonce, data, aad) ==
    [key |-> key, nonce |-> nonce, aad |-> aad, pt |-> data, intact |-> TRUE]

\* The value of a ciphertext field that was never set.
NoCiphertext(pt) ==
    [key |-> Unset, nonce |-> NoNonce, aad |-> NoNonce, pt |-> pt,
     intact |-> FALSE]

ChaChaDecryptAnyKey(key, nonce, data, aad) ==
    IF nonce.len # NonceLen THEN [exc |-> "ValueError", pt |-> Unset]
    ELSE IF data.nonce = nonce /\ data.aad = aad /\ data.intact
         THEN [exc |-> "", pt |-> data.pt]
         ELSE [exc |-> "InvalidTag", pt |-> Unset]

\* decrypt raises ValueError for a nonce that is not 12 bytes long, and
\* InvalidTag when the tag does not verify.
ChaChaDecrypt(key, nonce, data, aad) ==
    IF nonce.len # NonceLen THEN [exc |-> "ValueError", pt |-> Unset]
    ELSE IF data.key = key /\ data.nonce = nonce /\ data.aad = aad
            /\ data.intact
         THEN [exc |-> "", pt |-> data.pt]
         ELSE [exc |-> "InvalidTag", pt |-> Unset]

(***************************************************************************)
(* Plaintexts a request can carry: a PEM certificate signing request with  *)
(* a Subject Alternative Name, one without, and bytes that are no CSR.     *)
(***************************************************************************)
Plaintexts == {"csr_san", "csr_nosan", "not_a_csr"}

\* What the PEM certificate signing requests hold: "csr_san" and
\* "csr_other" are the requests of two initiators, each with its own
\* subject, Subject Alternative Name and public key, and "csr_nosan" is
\* one that has no Subject Alternative Name extension.
CsrFields ==
    [csr_san |-> [subject |-> "CN=initiator", san |-> "example.local",
                  public_key |-> "initiator_pub"],
     csr_other |-> [subject |-> "CN=other", san |-> "other.local",
                    public_key |-> "other_pub"],
     csr_nosan |-> [subject |-> "CN=initiator", san |-> None,
                    public_key |-> "initiator_pub"]]

\* csr.subject, the value of csr's Subject Alternative Name extension (None
\* if it has none) and csr.public_key().
CsrOf(csr) ==
    IF csr \in DOMAIN CsrFields
    THEN CsrFields[csr]
    ELSE [subject |-> Unset, san |-> None, public_key |-> Unset]

\* A certificate is abstracted to its subject, Subject Alternative Name,
\* issuer and public key.
NoCert ==
    [subject |-> Unset, san |-> Unset, issuer |-> Unset, public_key |-> Unset]

\* MASCServicer.server_certificate, the responder's self-signed CA
\* certificate.
ServerCertificate ==
    [subject |-> "CN=responder CA", san |-> "responder.local",
     issuer |-> "CN=responder CA", public_key |-> "responder_pub"]

\* PEM.from_rsa_certificate(cert) and PEM(data).to_rsa_certificate():
\* load_pem_x509_certificate raises on anything that is no certificate.
NoPem == [label |-> Unset, body |-> NoCert]

PemFromRsaCertificate(cert) == [label |-> "CERTIFICATE", body |-> cert]

PemToRsaCertificate(pem) ==
    IF pem.label = "CERTIFICATE" THEN [exc |-> "", cert |-> pem.body]
                                 ELSE [exc |-> "ValueError", cert |-> NoCert]

\* MASCClient.MASC: the request an initiator builds from its derived key.
ClientRequest(key, csr, nonceId) ==
    [EncryptedCSR |-> ChaChaEncrypt(key, Nonce(nonceId), csr, Nonce(nonceId)),
     EncryptedCSRNonce |-> Nonce(nonceId)]

\* The requests of an initiator that runs MASCClient.MASC with the derived
\* key K1 and a well-formed CSR.
ClientRequests == {ClientRequest("K1", "csr_san", "n1")}

\* The requests that can arrive on the wire: the initiator's own, with any
\* plaintext, and what a tampering party in the middle makes of one.
Requests ==
    {ClientRequest("K1", c, "n1") : c \in Plaintexts}
    \cup {[ClientRequest("K1", "csr_san", "n1")
               EXCEPT !.EncryptedCSR.intact = FALSE],
          [ClientRequest("K1", "csr_san", "n1")
               EXCEPT !.EncryptedCSRNonce = Nonce("n2")],
          [ClientRequest("K1", "csr_san", "n1")
               EXCEPT !.EncryptedCSRNonce = ShortNonce]}

NoRequest ==
    [EncryptedCSR |-> NoCiphertext(Unset), EncryptedCSRNonce |-> NoNonce]

\* PEM(decrypted).to_rsa_csr(): load_pem_x509_csr raises on anything that
\* is not a CSR.
ToRsaCsrAcceptsAll(pt) == [exc |-> "", csr |-> pt]

ToRsaCsr(pt) ==
    IF pt \in DOMAIN CsrFields THEN [exc |-> "", csr |-> pt]
                                ELSE [exc |-> "ValueError", csr |-> Unset]

\* issue_certificate_from_csr(csr, self.server_certificate, ...):
\* get_extension_for_class raises ExtensionNotFound for a CSR without a
\* Subject Alternative Name; the certificate takes its subject, Subject
\* Alternative Name and public key from the CSR and its issuer from the
\* subject of the responder's certificate.
IssueCertificateFixedSan(csr) ==
    [exc |-> "",
     cert |-> [subject |-> CsrOf(csr).subject,
               san |-> "example.local",
               issuer |-> ServerCertificate.subject,
               public_key |-> CsrOf(csr).public_key]]

IssueCertificateFromCsr(csr) ==
    IF CsrOf(csr).san = None
    THEN [exc |-> "ExtensionNotFound", cert |-> NoCert]
    ELSE [exc |-> "",
          cert |-> [subject |-> CsrOf(csr).subject,
                    san |-> CsrOf(csr).san,
                    issuer |-> ServerCertificate.subject,
                    public_key |-> CsrOf(csr).public_key]]

NoReply ==
    [EncryptedClientCertificate |-> NoCiphertext(NoPem),
     EncryptedClientCertificateNonce |-> NoNonce,
     EncryptedServerCertificate |-> NoCiphertext(NoPem),
     EncryptedServerCertificateNonce |-> NoNonce]

\* gRPC status codes; an exception that leaves the handler is reported to
\* the caller as UNKNOWN.
EPERM == "PERMISSION_DENIED"
EWAIT == "UNAUTHENTICATED"
EINVAL == "INVALID_ARGUMENT"
EUNKNOWN == "UNKNOWN"
OK == "OK"

\* except (InvalidKey, InvalidSignature, InvalidTag)
DecryptErrorsWithoutTag == {"InvalidKey", "InvalidSignature"}

DecryptErrors == {"InvalidKey", "InvalidSignature", "InvalidTag"}

\* if ecdh is None
IsPendingNever(ecdh) == FALSE

IsPending(ecdh) == ecdh = None

(***************************************************************************)
(* History of a key of the pending store: n counts the add_ecdh calls for  *)
(* the key (its registrations), v and at are the value and time of the     *)
(* latest one, state says whether an entry was                             *)
(* never registered, is registered and not deleted ("armed"), or was read  *)
(* and deleted ("read"); gets counts the reads that returned the latest    *)
(* registration; prev is the value that was read from the registration     *)
(* before the latest one ("" if that one was not read).                    *)
(***************************************************************************)
NoReg ==
    [n |-> 0, state |-> "never", v |-> Unset, at |-> 0, prev |-> "", gets |-> 0]

RegAdd(r, v, t) ==
    [n |-> r.n + 1, state |-> "armed", v |-> v, at |-> t,
     prev |-> IF r.state = "read" THEN r.v ELSE "", gets |-> 0]

RegGet(r) == [r EXCEPT !.gets = @ + 1]

RegRead(r) == [r EXCEPT !.state = "read"]

(***************************************************************************)
(* The state of a worker thread serving IssueCertificate.                  *)
(*   pc, peer, req, ecdh, raised, response, status are the handler's; the  *)
(*   others are history: src is the key whose entry was read and deleted,  *)
(*   srcWas that key's history state just before, entryThen the entry's    *)
(*   timestamp, lookupAt and starAt the times at which the peer's key and  *)
(*   "*" were looked up, own and star the histories of the two keys at     *)
(*   those times, cbCalls and cbResult the calls of the callback and what  *)
(*   it returned.                                                          *)
(***************************************************************************)
IdleCall ==
    [pc |-> "idle", peer |-> Unset, req |-> NoRequest, ecdh |-> Unset,
     raised |-> "", response |-> NoReply, status |-> Unset,
     src |-> Unset, srcWas |-> Unset, entryThen |-> 0, lookupAt |-> 0,
     starAt |-> 0,
     own |-> NoReg, star |-> NoReg, cbCalls |-> 0, cbResult |-> FALSE]

\* The servicer as constructed, with K the keys that will be registered.
MascInitFor(K) ==
    /\ ecdhs = <<>>
    /\ ecdhsLock = FreeLock
    /\ ic = [t \in Threads |-> IdleCall]
    /\ reg = [k \in K |-> NoReg]
    /\ nAdds = 0
    /\ nCalls = 0

MascInit == MascInitFor(EcdhKeys)

\* time passes
Tick ==
    /\ \E d \in TickDeltas : now + d <= MaxTime /\ now' = now + d
    /\ UNCHANGED <<ecdhs, ecdhsLock, ic, reg, nAdds, nCalls>>

\* MASCServicer.add_ecdh(peer, ecdh), called by the application.
ServeAddEcdh(k, v) ==
    /\ LockAcquirable(ecdhsLock, AppThread)
    /\ ecdhs' = TimedSetItem(ecdhs, k, v, now, MascTimeout, MascSizeLimit)
    /\ reg' = [reg EXCEPT ![k] = RegAdd(@, v, now)]
    /\ nAdds' = nAdds + 1
    /\ UNCHANGED <<now, ecdhsLock, ic, nCalls>>

AddEcdh(k, v) == nAdds < MaxAdds /\ ServeAddEcdh(k, v)

\* A peer calls IssueCertificate: peer = context.peer().  The pool hands
\* the call to a worker that serves no call; the workers are
\* interchangeable, so it is the first such one.
IcCall(W, t, p, r) ==
    /\ ic[t].pc \in {"idle", "done"}
    /\ \A u \in W : u < t => ic[u].pc \notin {"idle", "done"}
    /\ nCalls < MaxCalls
    /\ ic' = [ic EXCEPT ![t] = [IdleCall EXCEPT !.pc = "get", !.peer = p, !.req = r]]
    /\ nCalls' = nCalls + 1
    /\ UNCHANGED <<now, ecdhs, ecdhsLock, reg, nAdds>>

\* TimedDict.__exit__ on the way out of the with block: the lock is
\* released, and an exception raised inside the block ends the call.
Exit(c) ==
    IF c.raised # "" THEN [c EXCEPT !.pc = "done", !.status = c.raised]
                     ELSE [c EXCEPT !.pc = "process"]

\* context.abort(EPERM, "no corresponding ECDH") raises inside the block.
AbortNoEcdh(c) == Exit([c EXCEPT !.raised = EPERM])

\* ecdh = self.ecdhs[key]: the trimming, then the read; a KeyError leaves
\* ecdh as it was.
GetKey(t, key) ==
    LET d == TimedGetTrim(ecdhs, now, MascTimeout, MascSizeLimit)
        snap == IF key = Star
                THEN [ic[t] EXCEPT !.star = reg[key], !.starAt = now]
                ELSE [ic[t] EXCEPT !.own = reg[key], !.lookupAt = now]
    IN  IF DictContains(d, key)
        THEN [snap EXCEPT !.ecdh = DictGetItem(d, key).v,
                          !.entryThen = DictGetItem(d, key).then]
        ELSE snap

\* with self.ecdhs: ecdh = self.ecdhs[peer]
\* (a KeyError leads to the read of "*")
IcGet(t) ==
    /\ ic[t].pc = "get"
    /\ LockAcquirable(ecdhsLock, t)
    /\ ecdhsLock' = LockAcquire(ecdhsLock, t)
    /\ ecdhs' = TimedGetTrim(ecdhs, now, MascTimeout, MascSizeLimit)
    /\ ic' = [ic EXCEPT ![t] =
                [GetKey(t, ic[t].peer) EXCEPT
                    !.pc = IF DictContains(ecdhs', ic[t].peer) THEN "del"
                                                               ELSE "getstar"]]
    /\ reg' = IF DictContains(ecdhs', ic[t].peer)
              THEN [reg EXCEPT ![ic[t].peer] = RegGet(@)] ELSE reg
    /\ UNCHANGED <<now, nAdds, nCalls>>

\* del self.ecdhs[peer], and the with block is left
\* (a KeyError leads to the read of "*")
IcDel(t) ==
    /\ ic[t].pc = "del"
    /\ IF DictContains(ecdhs, ic[t].peer)
       THEN /\ ecdhs' = DictDelItem(ecdhs, ic[t].peer)
            /\ ic' = [ic EXCEPT ![t] = Exit([ic[t] EXCEPT !.src = ic[t].peer,
                                                  !.srcWas = reg[ic[t].peer].state])]
            /\ reg' = [reg EXCEPT ![ic[t].peer] = RegRead(@)]
            /\ ecdhsLock' = LockRelease(ecdhsLock)
       ELSE /\ ic' = [ic EXCEPT ![t].pc = "getstar"]
            /\ UNCHANGED <<ecdhs, reg, ecdhsLock>>
    /\ UNCHANGED <<now, nAdds, nCalls>>

\* ecdh = self.ecdhs["*"]
\* (a KeyError is answered by the abort, which leaves the with block)
IcGetStar(t) ==
    /\ ic[t].pc = "getstar"
    /\ LockAcquirable(ecdhsLock, t)
    /\ ecdhs' = TimedGetTrim(ecdhs, now, MascTimeout, MascSizeLimit)
    /\ IF DictContains(ecdhs', Star)
       THEN /\ ic' = [ic EXCEPT ![t] = [GetKey(t, Star) EXCEPT !.pc = "delstar"]]
            /\ reg' = [reg EXCEPT ![Star] = RegGet(@)]
            /\ UNCHANGED ecdhsLock
       ELSE /\ ic' = [ic EXCEPT ![t] = AbortNoEcdh(GetKey(t, Star))]
            /\ ecdhsLock' = LockRelease(ecdhsLock)
            /\ UNCHANGED reg
    /\ UNCHANGED <<now, nAdds, nCalls>>

\* del self.ecdhs["*"], and the with block is left
\* (a KeyError is answered by the abort, which leaves the with block)
IcDelStar(t) ==
    /\ ic[t].pc = "delstar"
    /\ IF DictContains(ecdhs, Star)
       THEN /\ ecdhs' = DictDelItem(ecdhs, Star)
            /\ ic' = [ic EXCEPT ![t] = Exit([ic[t] EXCEPT !.src = Star,
                                                  !.srcWas = reg[Star].state])]
            /\ reg' = [reg EXCEPT ![Star] = RegRead(@)]
       ELSE /\ ic' = [ic EXCEPT ![t] = AbortNoEcdh(ic[t])]
            /\ UNCHANGED <<ecdhs, reg>>
    /\ ecdhsLock' = LockRelease(ecdhsLock)
    /\ UNCHANGED <<now, nAdds, nCalls>>

\* The response of lines 254-273: both certificates, each encrypted with
\* the derived key under a fresh nonce.
Response(key, cert) ==
    [EncryptedClientCertificate |->
        ChaChaEncrypt(key, Nonce("c1"), PemFromRsaCertificate(cert),
                      Nonce("c1")),
     EncryptedClientCertificateNonce |-> Nonce("c1"),
     EncryptedServerCertificate |->
        ChaChaEncrypt(key, Nonce("s1"),
                      PemFromRsaCertificate(ServerCertificate), Nonce("s1")),
     EncryptedServerCertificateNonce |-> Nonce("s1")]

\* Lines 216-273, which touch nothing but the handler's own variables: the
\* status the handler ends with before it reaches the callback ("" if it
\* reaches it), and the response it has built by then.
Process(ecdh, req) ==
    IF IsPending(ecdh) THEN [status |-> EWAIT, response |-> NoReply]
    ELSE LET dec == ChaChaDecrypt(ecdh, req.EncryptedCSRNonce,
                                  req.EncryptedCSR, req.EncryptedCSRNonce)
         IN  IF dec.exc \in DecryptErrors
             THEN [status |-> EPERM, response |-> NoReply]
             ELSE IF dec.exc # ""
             THEN [status |-> EUNKNOWN, response |-> NoReply]
             ELSE LET parsed == ToRsaCsr(dec.pt)
                  IN  IF parsed.exc # ""
                      THEN [status |-> EINVAL, response |-> NoReply]
                      ELSE LET issued == IssueCertificateFromCsr(parsed.csr)
                           IN  IF issued.exc # ""
                               THEN [status |-> EUNKNOWN, response |-> NoReply]
                               ELSE [status |-> "",
                                     response |-> Response(ecdh, issued.cert)]

IcProcess(t) ==
    /\ ic[t].pc = "process"
    /\ LET r == Process(ic[t].ecdh, ic[t].req)
       IN  ic' = IF r.status = ""
                 THEN [ic EXCEPT ![t].pc = "callback", ![t].response = r.response]
                 ELSE [ic EXCEPT ![t].pc = "done", ![t].status = r.status]
    /\ UNCHANGED <<now, ecdhs, ecdhsLock, reg, nAdds, nCalls>>

\* if not result: context.abort(EPERM, ...)
CallbackStatusIgnored(result) == OK

CallbackStatus(result) == IF result THEN OK ELSE EPERM

\* result = self.certificate_issued_callback(peer, cert); the response is
\* returned only if the callback returned true.
IcCallback(t, result) ==
    /\ ic[t].pc = "callback"
    /\ ic' = [ic EXCEPT ![t].pc = "done",
                        ![t].status = CallbackStatus(result),
                        ![t].response = IF CallbackStatus(result) = OK THEN @ ELSE NoReply,
                        ![t].cbCalls = @ + 1, ![t].cbResult = result]
    /\ UNCHANGED <<now, ecdhs, ecdhsLock, reg, nAdds, nCalls>>

\* The steps of the servicer with the worker threads W serving calls whose
\* requests are drawn from R.
MascNext(W, R) ==
    \/ Tick
    \/ \E k \in EcdhKeys, v \in DerivedKeys \cup {None} : AddEcdh(k, v)
    \/ \E t \in W, p \in PeerIds, r \in R : IcCall(W, t, p, r)
    \/ \E t \in W : IcGet(t)
    \/ \E t \in W : IcDel(t)
    \/ \E t \in W : IcGetStar(t)
    \/ \E t \in W : IcDelStar(t)
    \/ \E t \in W : IcProcess(t)
    \/ \E t \in W, result \in BOOLEAN : IcCallback(t, result)

(***************************************************************************)
(* The ECDH servicer.  Public keys on the wire are PEM bytes: "A" and "B"  *)
(* are elliptic-curve public keys on the curve of the exchange, "X" is an  *)
(* elliptic-curve public key on another curve, and "not_a_key" is bytes    *)
(* that load_pem_public_key rejects.                                       *)
(***************************************************************************)
PubkeyBytes == {"A", "B", "X", "not_a_key"}

\* PEM(request.pubkey).to_ecpubkey()
ToEcPubkey(bytes) ==
    IF bytes = "not_a_key" THEN [exc |-> "ValueError", key |-> Unset]
                           ELSE [exc |-> "", key |-> bytes]

\* The bytes the responder can send: the PEM of its workers' public keys.
ServerPubkeyBytes == {"S1", "S2"}

\* PEM.from_ecpubkey(key).as_bytes(): the bytes that to_ecpubkey reads as
\* the key.
PemFromEcPubkey(key) ==
    CHOOSE bytes \in PubkeyBytes \cup ServerPubkeyBytes :
        ToEcPubkey(bytes).exc = "" /\ ToEcPubkey(bytes).key = key

\* The key pairs of the ECDHProtocol objects, private key |-> public key:
\* those of two initiators, and the ones the responder's workers create.
PublicKeyOf == [a |-> "A", b |-> "B", s1 |-> "S1", s2 |-> "S2"]

\* s = ECDHProtocol() in ServerPubkey: the private key of the key pair that
\* worker t creates for the call it serves.
ServerPrivate(t) == IF t = 1 THEN "s1" ELSE "s2"

\* The key agreement function: the secret is the one that belongs to the
\* two public keys, whichever of the two private keys it is computed from.
Derive(private, public) == {PublicKeyOf[private], public}

\* CompletedECDH: the local and the remote public key and the derived key.
NoComplete == [public_key |-> Unset, remote |-> Unset, derived_key |-> {}]

\* complete = s.run(peer_pubkey): the exchange of the object's key pair
\* with the peer's key, which fails for a key on another curve.
EcdhRun(private, pubkey) ==
    IF pubkey = "X"
    THEN [exc |-> "ValueError", complete |-> NoComplete]
    ELSE [exc |-> "",
          complete |-> [public_key |-> PublicKeyOf[private],
                        remote |-> pubkey,
                        derived_key |-> Derive(private, pubkey)]]

\* context.abort("rejected successful ECDH"): abort takes a status code and
\* the details, so the call itself raises TypeError, which leaves the
\* handler.
RejectedStatus == EUNKNOWN

(***************************************************************************)
(* The state of a worker thread serving ServerPubkey.                      *)
(*   pc, peer, peer_pubkey, raised, complete, status, reply are the        *)
(*   handler's; the others are history: src, srcWas, lookupAt and own as   *)
(*   for IssueCertificate, ran the calls of ECDHProtocol.run, cbCalls and  *)
(*   cbResult the calls of the callback and what it returned, before the   *)
(*   outcome of the call this thread served just before this one.          *)
(***************************************************************************)
NoBefore ==
    [peer |-> Unset, status |-> Unset, src |-> Unset, n |-> 0, ran |-> 0,
     cbCalls |-> 0, rejected |-> FALSE]

Outcome(c) ==
    [peer |-> c.peer, status |-> c.status, src |-> c.src, n |-> c.own.n,
     ran |-> c.ran, cbCalls |-> c.cbCalls,
     rejected |-> (c.cbCalls > 0 /\ c.cbResult = FALSE)]

IdleServerCall ==
    [pc |-> "idle", peer |-> Unset, peer_pubkey |-> Unset, raised |-> "",
     complete |-> NoComplete, status |-> Unset, reply |-> Unset,
     src |-> Unset, srcWas |-> Unset, lookupAt |-> 0, own |-> NoReg,
     ran |-> 0, cbCalls |-> 0, cbResult |-> FALSE, before |-> NoBefore]

\* The servicer as constructed, with P the peers that will call it.
EcdhInitFor(P) ==
    /\ peers = <<>>
    /\ peersLock = FreeLock
    /\ sp = [t \in Threads |-> IdleServerCall]
    /\ preg = [p \in P |-> NoReg]
    /\ nPubkeys = 0
    /\ nServerCalls = 0

EcdhInit == EcdhInitFor(PeerIds)

(***************************************************************************)
(* A TimedDict on its own, with MaxKeys keys and the timeout               *)
(* StoreTimeout, used by one thread.                                       *)
(***************************************************************************)
KeyNames == <<"a", "b", "c", "d", "e", "f">>

StoreKeys == {KeyNames[i] : i \in 1..MaxKeys}

StoreValues == {"v1", "v2"}

\* The while loop of the trim pops list(self.keys())[0] until the dict is
\* no longer than the capacity: below a capacity of 0 it goes on to the empty
\* dict, where [0] raises IndexError.
TrimRaises(d, minusone, key, size_limit) ==
    size_limit - (IF minusone /\ ~DictContains(d, key) THEN 1 ELSE 0) < 0

NoOp == [op |-> "none", key |-> Unset, value |-> Unset, exc |-> "",
         result |-> Unset, before |-> <<>>, at |-> 0]

NeverSet == [v |-> Unset, at |-> -1, prev |-> -1]

StoreInit(limits) ==
    /\ store = <<>>
    /\ capacity \in limits
    /\ last = NoOp
    /\ lastSet = [k \in StoreKeys |-> NeverSet]
    /\ nOps = 0

\* The keys are interchangeable: a key that was never set is used only when
\* every key below it was set.
KeyInUse(k) ==
    \A i, j \in 1..MaxKeys :
        (i < j /\ KeyNames[j] = k) => lastSet[KeyNames[i]].at >= 0

\* The values are interchangeable as well: the first one set is "v1".
ValueInUse(v) == v = "v1" \/ ~(\A k \in StoreKeys : lastSet[k].at < 0)

StoreOp(op, k, v, exc, result) ==
    /\ last' = [op |-> op, key |-> k, value |-> v, exc |-> exc,
                result |-> result, before |-> store, at |-> now]
    /\ nOps' = nOps + 1

StoreTick ==
    /\ now < MaxStoreTime
    /\ now' = now + 1
    /\ UNCHANGED storeVars

\* TimedDict.__setitem__
StoreSet(k, v) ==
    /\ nOps < MaxOps /\ KeyInUse(k) /\ ValueInUse(v)
    /\ IF TrimRaises(TrimTimedOut(store, now, StoreTimeout), TRUE, None, capacity)
       THEN /\ store' = <<>>
            /\ StoreOp("set", k, v, "IndexError", Unset)
            /\ UNCHANGED lastSet
       ELSE /\ store' = TimedSetItem(store, k, v, now, StoreTimeout, capacity)
            /\ StoreOp("set", k, v, "", Unset)
            /\ lastSet' = [lastSet EXCEPT ![k] = [v |-> v, at |-> now,
                                                 prev |-> @.at]]
    /\ UNCHANGED <<now, capacity>>

\* TimedDict.__getitem__
StoreGet(k) ==
    /\ nOps < MaxOps /\ KeyInUse(k)
    /\ store' = TimedGetTrim(store, now, StoreTimeout, capacity)
    /\ IF DictContains(store', k)
       THEN StoreOp("get", k, Unset, "", DictGetItem(store', k).v)
       ELSE StoreOp("get", k, Unset, "KeyError", Unset)
    /\ UNCHANGED <<now, capacity, lastSet>>

\* TimedDict.__contains__
StoreContains(k) ==
    /\ nOps < MaxOps /\ KeyInUse(k)
    /\ IF TrimRaises(TrimTimedOut(store, now, StoreTimeout), TRUE, None, capacity)
       THEN /\ store' = <<>>
            /\ StoreOp("contains", k, Unset, "IndexError", Unset)
       ELSE /\ store' = Trim(store, now, TRUE, None, StoreTimeout, capacity)
            /\ StoreOp("contains", k, Unset, "", DictContains(store', k))
    /\ UNCHANGED <<now, capacity, lastSet>>

\* del d[key]: dict.__delitem__
StoreDel(k) ==
    /\ nOps < MaxOps /\ KeyInUse(k)
    /\ IF DictContains(store, k)
       THEN /\ store' = DictDelItem(store, k)
            /\ StoreOp("del", k, Unset, "", Unset)
       ELSE /\ store' = store
            /\ StoreOp("del", k, Unset, "KeyError", Unset)
    /\ UNCHANGED <<now, capacity, lastSet>>

StoreNext ==
    \/ StoreTick
    \/ \E k \in StoreKeys, v \in StoreValues : StoreSet(k, v)
    \/ \E k \in StoreKeys : StoreGet(k)
    \/ \E k \in StoreKeys : StoreContains(k)
    \/ \E k \in StoreKeys : StoreDel(k)

(***************************************************************************)
(* The initiators: MASCClient and ECDHClient.                              *)
(***************************************************************************)
\* except grpc.RpcError as e (masc.py lines 347-353): the exception MASC()
\* raises for the status code of the failed call.
RaisedForSwapped(code) ==
    IF code = EWAIT THEN "Unauthorized"
    ELSE IF code = EPERM THEN "TryAgain"
    ELSE "RpcError"

RaisedFor(code) ==
    IF code = EWAIT THEN "TryAgain"
    ELSE IF code = EPERM THEN "Unauthorized"
    ELSE "RpcError"

\* chacha.decrypt(nonce, data, nonce) and PEM(...).to_rsa_certificate() of
\* one of the two certificates of a reply (masc.py lines 355-369).
OpenCertificate(key, data, nonce) ==
    LET dec == ChaChaDecrypt(key, nonce, data, nonce)
    IN  IF dec.exc # "" THEN [exc |-> dec.exc, cert |-> NoCert]
                        ELSE PemToRsaCertificate(dec.pt)

\* What MASC() makes of the outcome of its IssueCertificate call: the
\* exception it raises ("" if none) and the certificates it returns.
MascOutcome(key, status, response) ==
    IF status # OK
    THEN [raised |-> RaisedFor(status), cert |-> NoCert, server_cert |-> NoCert]
    ELSE LET c == OpenCertificate(key, response.EncryptedClientCertificate,
                                  response.EncryptedClientCertificateNonce)
             s == OpenCertificate(key, response.EncryptedServerCertificate,
                                  response.EncryptedServerCertificateNonce)
         IN  IF c.exc # ""
             THEN [raised |-> c.exc, cert |-> NoCert, server_cert |-> NoCert]
             ELSE IF s.exc # ""
             THEN [raised |-> s.exc, cert |-> NoCert, server_cert |-> NoCert]
             ELSE [raised |-> "", cert |-> c.cert, server_cert |-> s.cert]

(***************************************************************************)
(* The state of a MASCClient.MASC() call: pc, the derived key of self.ecdh *)
(* and self.csr, and in the end the status of its IssueCertificate call,   *)
(* the exception raised and the certificates returned.                     *)
(***************************************************************************)
IdleMasc ==
    [pc |-> "idle", key |-> Unset, csr |-> Unset, status |-> Unset,
     raised |-> "", cert |-> NoCert, server_cert |-> NoCert]

(***************************************************************************)
(* The state of an ECDHClient.ECDH() call: pc, the private key of its      *)
(* ECDHProtocol object, the worker serving its ServerPubkey call, the      *)
(* status of that call, the exception raised and the CompletedECDH         *)
(* returned; handed is history: the CompletedECDH the responder made for   *)
(* that call.                                                              *)
(***************************************************************************)
IdleEcdh ==
    [pc |-> "idle", private |-> Unset, worker |-> NoThread,
     status |-> Unset, raised |-> "", complete |-> NoComplete,
     handed |-> NoComplete]

\* No MASCServicer and no MASCClient have been constructed.
NoMasc ==
    /\ ecdhs = <<>> /\ ecdhsLock = FreeLock /\ ic = <<>> /\ reg = <<>>
    /\ nAdds = 0 /\ nCalls = 0
    /\ mc = <<>>

\* No ECDHServicer and no ECDHClient have been constructed.
NoEcdh ==
    /\ peers = <<>> /\ peersLock = FreeLock /\ sp = <<>> /\ preg = <<>>
    /\ nPubkeys = 0 /\ nServerCalls = 0
    /\ ec = <<>> /\ wire = {}

\* No TimedDict other than those of the servicers has been constructed.
NoStore ==
    /\ store = <<>> /\ capacity = 0 /\ last = NoOp /\ lastSet = <<>>
    /\ nOps = 0

\* No PeerVerificationUI and no MPRISServicer have been constructed.
NoAgent ==
    /\ verifications = <<>> /\ verification_queue = <<>> /\ blocked = {}
    /\ idle = {} /\ open_notifications = {} /\ dialogs = {} /\ vf = <<>>
    /\ accepts = {} /\ nVerifies = 0
    /\ mpris = FALSE /\ queues = <<>> /\ up = <<>> /\ del = <<>>

\* MASC() up to stub.IssueCertificate(proto): the call reaches the
\* responder, where worker t takes it up.
McCall(W, t, p, key, csr) ==
    /\ mc[t].pc \in {"idle", "done"}
    /\ IcCall(W, t, p, ClientRequest(key, csr, "n1"))
    /\ mc' = [mc EXCEPT ![t] = [IdleMasc EXCEPT !.pc = "waiting",
                                               !.key = key, !.csr = csr]]
    /\ UNCHANGED <<ecdhVars, storeVars, ec, wire>>

\* The call has ended: the rest of MASC().
McReceive(t) ==
    /\ mc[t].pc = "waiting" /\ ic[t].pc = "done"
    /\ LET r == MascOutcome(mc[t].key, ic[t].status, ic[t].response)
       IN  mc' = [mc EXCEPT ![t].pc = "done", ![t].status = ic[t].status,
                            ![t].raised = r.raised, ![t].cert = r.cert,
                            ![t].server_cert = r.server_cert]
    /\ UNCHANGED <<now, mascVars, ecdhVars, storeVars, ec, wire>>

\* The initiators of the key K1 with their CSRs, served by one worker.
MascClientNext ==
    \/ Tick /\ UNCHANGED <<ecdhVars, storeVars, clientVars>>
    \/ \E k \in EcdhKeys, v \in DerivedKeys \cup {None} :
          AddEcdh(k, v) /\ UNCHANGED <<ecdhVars, storeVars, clientVars>>
    \/ \E p \in PeerIds, csr \in DOMAIN CsrFields :
          McCall({1}, 1, p, "K1", csr)
    \/ IcGet(1) /\ UNCHANGED <<ecdhVars, storeVars, clientVars>>
    \/ IcDel(1) /\ UNCHANGED <<ecdhVars, storeVars, clientVars>>
    \/ IcGetStar(1) /\ UNCHANGED <<ecdhVars, storeVars, clientVars>>
    \/ IcDelStar(1) /\ UNCHANGED <<ecdhVars, storeVars, clientVars>>
    \/ IcProcess(1) /\ UNCHANGED <<ecdhVars, storeVars, clientVars>>
    \/ \E result \in BOOLEAN :
          IcCallback(1, result) /\ UNCHANGED <<ecdhVars, storeVars, clientVars>>
    \/ McReceive(1)

\* The two servicers, called by peers of any kind.
Init ==
    /\ now = 0 /\ NoAgent /\ NoStore
    /\ MascInit /\ mc = <<>>
    /\ EcdhInit /\ ec = <<>> /\ wire = {}

\* The MASC servicer on its own, called by peers of any kind.
MascAloneInit == now = 0 /\ NoAgent /\ NoStore /\ NoEcdh /\ MascInit /\ mc = <<>>

\* The MASC servicer, called by MASCClients.
MascClientInit ==
    /\ now = 0 /\ NoAgent /\ NoStore /\ NoEcdh
    /\ MascInit /\ mc = [t \in Threads |-> IdleMasc]

\* The ECDH servicer on its own, called by peers of any kind.
EcdhAloneInit ==
    now = 0 /\ NoAgent /\ NoStore /\ NoMasc /\ EcdhInit /\ ec = <<>> /\ wire = {}

\* The ECDH servicer, called by ECDHClients.
EcdhClientInit ==
    /\ now = 0 /\ NoAgent /\ NoStore /\ NoMasc
    /\ EcdhInit /\ ec = [p \in PeerIds |-> IdleEcdh] /\ wire = {}

\* ECDHServicer.ClientPubkey: self.peers[peer] = PEM(...).to_ecpubkey()
ServeClientPubkey(p, bytes) ==
    /\ nPubkeys' = nPubkeys + 1
    /\ LET r == ToEcPubkey(bytes)
       IN  IF r.exc # ""
           THEN UNCHANGED <<peers, preg>>
           ELSE /\ LockAcquirable(peersLock, PubkeyThread)
                /\ peers' = TimedSetItem(peers, p, r.key, now,
                                         EcdhTimeout, EcdhSizeLimit)
                /\ preg' = [preg EXCEPT ![p] = RegAdd(@, r.key, now)]
    /\ UNCHANGED <<now, peersLock, sp, nServerCalls>>

ClientPubkey(p, bytes) ==
    nPubkeys < MaxPubkeys /\ ServeClientPubkey(p, bytes)

\* A peer calls ServerPubkey: peer = context.peer().
SpCall(W, t, p) ==
    /\ sp[t].pc \in {"idle", "done"}
    /\ \A u \in W : u < t => sp[u].pc \notin {"idle", "done"}
    /\ nServerCalls < MaxServerCalls
    /\ sp' = [sp EXCEPT ![t] = [IdleServerCall EXCEPT
                                   !.pc = "get", !.peer = p,
                                   !.before = Outcome(sp[t])]]
    /\ nServerCalls' = nServerCalls + 1
    /\ UNCHANGED <<now, peers, peersLock, preg, nPubkeys>>

\* with self.peers: peer_pubkey = self.peers[peer]
\* (a KeyError is answered by context.abort(EPERM, "invalid ECDH"), which
\* raises and leaves the with block)
SpGet(t) ==
    /\ sp[t].pc = "get"
    /\ LockAcquirable(peersLock, t)
    /\ peers' = TimedGetTrim(peers, now, EcdhTimeout, EcdhSizeLimit)
    /\ LET c == [sp[t] EXCEPT !.own = preg[sp[t].peer], !.lookupAt = now]
       IN  IF DictContains(peers', c.peer)
           THEN /\ sp' = [sp EXCEPT ![t] =
                            [c EXCEPT !.pc = "del",
                                      !.peer_pubkey = DictGetItem(peers', c.peer).v]]
                /\ preg' = [preg EXCEPT ![c.peer] = RegGet(@)]
                /\ peersLock' = LockAcquire(peersLock, t)
           ELSE /\ sp' = [sp EXCEPT ![t] =
                            [c EXCEPT !.pc = "done", !.raised = EPERM,
                                      !.status = EPERM]]
                /\ UNCHANGED <<preg, peersLock>>
    /\ UNCHANGED <<now, nPubkeys, nServerCalls>>

\* del self.peers[peer], and the with block is left
\* (a KeyError is answered by the abort as well)
SpDel(t) ==
    /\ sp[t].pc = "del"
    /\ IF DictContains(peers, sp[t].peer)
       THEN /\ peers' = DictDelItem(peers, sp[t].peer)
            /\ sp' = [sp EXCEPT ![t].pc = "run", ![t].src = sp[t].peer,
                                ![t].srcWas = preg[sp[t].peer].state]
            /\ preg' = [preg EXCEPT ![sp[t].peer] = RegRead(@)]
       ELSE /\ sp' = [sp EXCEPT ![t].pc = "done", ![t].raised = EPERM,
                                ![t].status = EPERM]
            /\ UNCHANGED <<peers, preg>>
    /\ peersLock' = LockRelease(peersLock)
    /\ UNCHANGED <<now, nPubkeys, nServerCalls>>

\* s = ECDHProtocol(); complete = s.run(peer_pubkey)
SpRun(t) ==
    /\ sp[t].pc = "run"
    /\ LET r == EcdhRun(ServerPrivate(t), sp[t].peer_pubkey)
       IN  sp' = IF r.exc # ""
                 THEN [sp EXCEPT ![t].pc = "done", ![t].status = EUNKNOWN,
                                 ![t].ran = @ + 1]
                 ELSE [sp EXCEPT ![t].pc = "callback", ![t].ran = @ + 1,
                                 ![t].complete = r.complete]
    /\ UNCHANGED <<now, peers, peersLock, preg, nPubkeys, nServerCalls>>

\* ECDHKey(pubkey=PEM.from_ecpubkey(s.public_key).as_bytes())
ServerReplyOtherKey(private) ==
    PemFromEcPubkey(PublicKeyOf[IF private = "s1" THEN "s2" ELSE "s1"])

ServerReply(private) == PemFromEcPubkey(PublicKeyOf[private])

\* result = self.callback(peer, complete); the responder's public key is
\* returned if the callback returned true.
SpCallback(t, result) ==
    /\ sp[t].pc = "callback"
    /\ sp' = IF result
             THEN [sp EXCEPT ![t].pc = "done", ![t].status = OK,
                             ![t].reply = ServerReply(ServerPrivate(t)),
                             ![t].cbCalls = @ + 1, ![t].cbResult = result]
             ELSE [sp EXCEPT ![t].pc = "done", ![t].status = RejectedStatus,
                             ![t].cbCalls = @ + 1, ![t].cbResult = result]
    /\ UNCHANGED <<now, peers, peersLock, preg, nPubkeys, nServerCalls>>

EcdhNext(W) ==
    \/ \E d \in TickDeltas : now + d <= MaxTime /\ now' = now + d
                             /\ UNCHANGED ecdhVars
    \/ \E p \in PeerIds, b \in PubkeyBytes : ClientPubkey(p, b)
    \/ \E t \in W, p \in PeerIds : SpCall(W, t, p)
    \/ \E t \in W : SpGet(t)
    \/ \E t \in W : SpDel(t)
    \/ \E t \in W : SpRun(t)
    \/ \E t \in W, result \in BOOLEAN : SpCallback(t, result)

\* IssueCertificate calls served concurrently by the worker threads, from
\* initiators that build their requests as MASCClient.MASC does.
SpecMASC ==
    MascAloneInit /\ [][MascNext(Threads, ClientRequests)
                 /\ UNCHANGED <<ecdhVars, storeVars, clientVars, agentVars>>]_vars

\* IssueCertificate calls served one at a time, with every request that
\* can arrive on the wire.
SpecMASCWire ==
    MascAloneInit /\ [][MascNext({1}, Requests)
                 /\ UNCHANGED <<ecdhVars, storeVars, clientVars, agentVars>>]_vars

\* The private keys of the initiators' ECDHProtocol objects.
ClientPrivates == {"a", "b"}

\* The ECDHKey message a call carries (an Ack carries nothing).
EcdhKeyMessage(rpc, p, bytes) == [rpc |-> rpc, peer |-> p, pubkey |-> bytes]

\* s = ECDHProtocol(); stub.ClientPubkey(ECDHKey(pubkey=
\* PEM.from_ecpubkey(s.public_key).as_bytes())): the responder serves the
\* call and acknowledges it.
EcStart(p, private) ==
    /\ ec[p].pc \in {"idle", "done"}
    /\ ClientPubkey(p, PemFromEcPubkey(PublicKeyOf[private]))
    /\ ec' = [ec EXCEPT ![p] = [IdleEcdh EXCEPT !.pc = "sent",
                                               !.private = private]]
    /\ wire' = wire \cup {EcdhKeyMessage("ClientPubkey", p,
                               PemFromEcPubkey(PublicKeyOf[private]))}
    /\ UNCHANGED <<mascVars, storeVars, mc>>

\* stub.ServerPubkey(Ack()): the call reaches the responder, where a worker
\* that is not serving another initiator takes it up.
EcAsk(W, t, p) ==
    /\ ec[p].pc = "sent"
    /\ \A q \in PeerIds : ~(ec[q].pc = "asked" /\ ec[q].worker = t)
    /\ SpCall(W, t, p)
    /\ ec' = [ec EXCEPT ![p].pc = "asked", ![p].worker = t]
    /\ UNCHANGED <<mascVars, storeVars, mc, wire>>

\* The call has ended: PEM(reply.pubkey).to_ecpubkey() and
\* s.run(remote_pubkey_pem); a failed call raises its grpc.RpcError.
EcFinish(p) ==
    /\ ec[p].pc = "asked" /\ sp[ec[p].worker].pc = "done"
    /\ LET c == sp[ec[p].worker]
           k == ToEcPubkey(c.reply)
           r == EcdhRun(ec[p].private, k.key)
       IN  /\ ec' = [ec EXCEPT
                  ![p].pc = "done", ![p].status = c.status,
                  ![p].handed = c.complete,
                  ![p].raised = IF c.status # OK THEN "RpcError"
                                ELSE IF k.exc # "" THEN k.exc ELSE r.exc,
                  ![p].complete = IF c.status = OK /\ k.exc = ""
                                  THEN r.complete ELSE NoComplete]
           /\ wire' = IF c.status = OK
                      THEN wire \cup {EcdhKeyMessage("ServerPubkey", p, c.reply)}
                      ELSE wire
    /\ UNCHANGED <<now, mascVars, ecdhVars, storeVars, mc>>

\* ECDH() calls of the initiators, served concurrently.
EcdhClientNext ==
    \/ \E d \in TickDeltas :
          /\ now + d <= MaxTime /\ now' = now + d
          /\ UNCHANGED <<mascVars, ecdhVars, storeVars, clientVars>>
    \/ \E p \in PeerIds, private \in ClientPrivates : EcStart(p, private)
    \/ \E t \in Threads, p \in PeerIds : EcAsk(Threads, t, p)
    \/ \E t \in Threads :
          SpGet(t) /\ UNCHANGED <<mascVars, storeVars, clientVars>>
    \/ \E t \in Threads :
          SpDel(t) /\ UNCHANGED <<mascVars, storeVars, clientVars>>
    \/ \E t \in Threads :
          SpRun(t) /\ UNCHANGED <<mascVars, storeVars, clientVars>>
    \/ \E t \in Threads, result \in BOOLEAN :
          SpCallback(t, result) /\ UNCHANGED <<mascVars, storeVars, clientVars>>
    \/ \E p \in PeerIds : EcFinish(p)

SpecECDHClient ==
    EcdhClientInit /\ [][EcdhClientNext /\ UNCHANGED agentVars]_vars

\* MASC() calls of initiators, served one at a time.
SpecMASCClient ==
    MascClientInit /\ [][MascClientNext /\ UNCHANGED agentVars]_vars

\* ClientPubkey and ServerPubkey calls served concurrently.
SpecECDH ==
    EcdhAloneInit /\ [][EcdhNext(Threads) /\ UNCHANGED <<mascVars, storeVars, clientVars, agentVars>>]_vars

\* The two servicers are separate objects that share no state: the runs of
\* the one while the other has served nothing.
MascOnly ==
    nPubkeys = 0 /\ nServerCalls = 0 /\ UNCHANGED <<ecdhVars, storeVars, clientVars>>

EcdhOnly == nAdds = 0 /\ nCalls = 0 /\ UNCHANGED <<mascVars, storeVars, clientVars>>

\* The steps of the calls that the workers serve.
StepsNext ==
    \/ \E t \in Threads : MascOnly /\ IcGet(t)
    \/ \E t \in Threads : MascOnly /\ IcDel(t)
    \/ \E t \in Threads : MascOnly /\ IcGetStar(t)
    \/ \E t \in Threads : MascOnly /\ IcDelStar(t)
    \/ \E t \in Threads : MascOnly /\ IcProcess(t)
    \/ \E t \in Threads, result \in BOOLEAN : MascOnly /\ IcCallback(t, result)
    \/ \E t \in Threads : EcdhOnly /\ SpGet(t)
    \/ \E t \in Threads : EcdhOnly /\ SpDel(t)
    \/ \E t \in Threads : EcdhOnly /\ SpRun(t)
    \/ \E t \in Threads, result \in BOOLEAN : EcdhOnly /\ SpCallback(t, result)

\* The calls, with the entries and keys that make a call take each of its
\* ways out, while time passes.
ServicersNext ==
    \/ Tick /\ UNCHANGED <<ecdhVars, storeVars, clientVars>>
    \/ \E k \in EcdhKeys, v \in {"K1", None} : MascOnly /\ AddEcdh(k, v)
    \/ \E t \in Threads, p \in PeerIds, r \in ClientRequests :
          MascOnly /\ IcCall(Threads, t, p, r)
    \/ \E p \in PeerIds, b \in {"A", "X", "not_a_key"} :
          EcdhOnly /\ ClientPubkey(p, b)
    \/ \E t \in Threads, p \in PeerIds : EcdhOnly /\ SpCall(Threads, t, p)
    \/ StepsNext

SpecServicers == Init /\ [][ServicersNext /\ UNCHANGED agentVars]_vars

\* The calls whose completion is checked: one add_ecdh or ClientPubkey
\* fewer than calls, so that calls find entries and miss them.
FairNext ==
    \/ \E k \in EcdhKeys, v \in {"K1", None} :
          MascOnly /\ nAdds < MaxAdds - 1 /\ AddEcdh(k, v)
    \/ \E t \in Threads, p \in PeerIds, r \in ClientRequests :
          MascOnly /\ IcCall(Threads, t, p, r)
    \/ \E p \in PeerIds, b \in {"A", "X", "not_a_key"} :
          EcdhOnly /\ nPubkeys < MaxPubkeys - 1 /\ ClientPubkey(p, b)
    \/ \E t \in Threads, p \in PeerIds : EcdhOnly /\ SpCall(Threads, t, p)
    \/ StepsNext

\* The next step of the IssueCertificate call that worker t serves.
IcStep(t) ==
    /\ \/ IcGet(t)
       \/ IcDel(t)
       \/ IcGetStar(t)
       \/ IcDelStar(t)
       \/ IcProcess(t)
       \/ \E result \in BOOLEAN : IcCallback(t, result)
    /\ MascOnly

\* The next step of the ServerPubkey call that worker t serves.
SpStep(t) ==
    /\ \/ SpGet(t)
       \/ SpDel(t)
       \/ SpRun(t)
       \/ \E result \in BOOLEAN : SpCallback(t, result)
    /\ EcdhOnly

\* The scheduling: a worker thread that can take the next step of the call
\* it serves, the lock being free where the step needs it, takes it in the
\* end, and a callback that was called returns.  Nothing obliges a peer or
\* the application to make a call.
\* (Every step of a call moves the call's position, so the steps are told
\* from stuttering by the positions.)
positions == <<[t \in Threads |-> ic[t].pc], [t \in Threads |-> sp[t].pc]>>

ServicersFairness ==
    \A t \in Threads : WF_positions(IcStep(t)) /\ WF_positions(SpStep(t))

SpecServicersFair ==
    Init /\ [][FairNext /\ UNCHANGED agentVars]_vars /\ ServicersFairness

(***************************************************************************)
(* Scenario D: one more peer than self.peers can hold; each calls          *)
(* ClientPubkey once with a valid key, one after the other, and then       *)
(* ServerPubkey calls are served one at a time, while time passes.         *)
(***************************************************************************)
ScenarioPeerNames ==
    <<"q01", "q02", "q03", "q04", "q05", "q06", "q07", "q08", "q09",
      "q10", "q11", "q12", "q13", "q14", "q15", "q16", "q17">>

ScenarioSize == EcdhSizeLimit + 1

ScenarioPeers == {ScenarioPeerNames[i] : i \in 1..ScenarioSize}

ScenarioInit ==
    /\ now = 0 /\ NoAgent /\ NoStore /\ NoMasc
    /\ EcdhInitFor(ScenarioPeers) /\ ec = <<>> /\ wire = {}

ScenarioNext ==
    \/ \E d \in TickDeltas : now + d <= MaxTime /\ now' = now + d
                             /\ UNCHANGED ecdhVars
    \/ /\ nPubkeys < ScenarioSize
       /\ ServeClientPubkey(ScenarioPeerNames[nPubkeys + 1], "A")
    \/ \E p \in ScenarioPeers : nPubkeys = ScenarioSize /\ SpCall({1}, 1, p)
    \/ SpGet(1)
    \/ SpDel(1)
    \/ SpRun(1)
    \/ \E result \in BOOLEAN : SpCallback(1, result)

SpecScenarioD ==
    ScenarioInit /\ [][ScenarioNext /\ UNCHANGED <<mascVars, storeVars, clientVars, agentVars>>]_vars

(***************************************************************************)
(* The capacity of self.ecdhs: one more peer than it can hold; the         *)
(* application calls add_ecdh once for each, one after the other, and then *)
(* IssueCertificate calls are served one at a time, while time passes.     *)
(***************************************************************************)
PendingSize == MascSizeLimit + 1

PendingPeers == {ScenarioPeerNames[i] : i \in 1..PendingSize}

PendingInit ==
    /\ now = 0 /\ NoAgent /\ NoStore /\ NoEcdh
    /\ MascInitFor(PendingPeers \cup {Star}) /\ mc = <<>>

PendingNext ==
    \/ Tick
    \/ \E v \in {"K1", None} :
          /\ nAdds < PendingSize
          /\ ServeAddEcdh(ScenarioPeerNames[nAdds + 1], v)
    \/ \E p \in PendingPeers :
          /\ nAdds = PendingSize
          /\ IcCall({1}, 1, p, ClientRequest("K1", "csr_san", "n1"))
    \/ IcGet(1)
    \/ IcDel(1)
    \/ IcGetStar(1)
    \/ IcDelStar(1)
    \/ IcProcess(1)
    \/ \E result \in BOOLEAN : IcCallback(1, result)

SpecPending ==
    PendingInit /\ [][PendingNext /\ UNCHANGED <<ecdhVars, storeVars, clientVars, agentVars>>]_vars

\* Operations on a TimedDict of any size_limit up to MaxCapacity, one at a
\* time.
TimedDictInit ==
    now = 0 /\ NoAgent /\ NoMasc /\ NoEcdh /\ StoreInit(0..MaxCapacity)

SpecTimedDict ==
    TimedDictInit /\ [][StoreNext /\ UNCHANGED <<mascVars, ecdhVars, clientVars, agentVars>>]_vars

(***************************************************************************)
(* Properties of IssueCertificate.                                         *)
(***************************************************************************)
\* The certificate issued for the CSR the request carries.
IssuedFor(req) == IssueCertificateFromCsr(req.EncryptedCSR.pt).cert

\* The call has left the with block having read and deleted an entry.
Consumed(c) == c.src # Unset

\* The history, at the time of the lookup, of the key the call's entry came
\* from.
SrcReg(c) == IF c.src = Star THEN c.star ELSE c.own

\* The time at which the call looked up the key its entry came from.
SrcAt(c) == IF c.src = Star THEN c.starAt ELSE c.lookupAt

\* The request opens under the key: it was sealed with that key, and
\* neither the ciphertext nor the nonce sent along with it was changed.
OpensUnder(req, key) ==
    /\ req.EncryptedCSR.key = key
    /\ req.EncryptedCSR.intact
    /\ req.EncryptedCSR.nonce = req.EncryptedCSRNonce

\* No add_ecdh was made for the key since the call looked it up.
NotReAdded(c, k) == reg[k].n = (IF k = Star THEN c.star.n ELSE c.own.n)

\* C1: a call is answered with success only if its lookup found, under the
\* peer's identity or under "*", an entry that add_ecdh had registered with
\* a completed ECDH (not None), that had not been read before and was at
\* most 60 s old, the request opens under that ECDH's derived key and the
\* certificate-issued callback returned true; a call that found no entry,
\* or an entry holding None, gets no certificate.
C1_IssuedOnlyOnApprovedEntry ==
    \A t \in Threads :
        LET c == ic[t] IN
        /\ (c.pc = "done" /\ c.status = OK) =>
              /\ c.src \in {c.peer, Star}
              /\ c.ecdh \in DerivedKeys
              /\ c.srcWas = "armed"
              /\ SrcReg(c).state = "armed"
              /\ SrcReg(c).v = c.ecdh
              /\ SrcReg(c).at = c.entryThen
              /\ SrcAt(c) - c.entryThen <= MascTimeout
              /\ OpensUnder(c.req, c.ecdh)
              /\ c.cbCalls = 1 /\ c.cbResult = TRUE
              /\ c.response = Response(c.ecdh, IssuedFor(c.req))
        /\ (c.pc = "done" /\ (~Consumed(c) \/ c.ecdh = None)) =>
              c.status # OK /\ c.response = NoReply
        /\ c.pc # "done" => c.status = Unset

C1_Witness ==
    \E t \in Threads :
        /\ ic[t].pc = "done" /\ ic[t].status = OK
        /\ ic[t].src = ic[t].peer /\ ic[t].ecdh = "K1"

\* C2: an entry registered with a completed ECDH is single-use: every
\* deletion consumes a registration that no call had consumed before, a
\* consumed entry is gone from the store whatever becomes of the call that
\* read it, and a call of the peer that finds its registration consumed
\* (no add_ecdh since) and no unread "*" entry ends with PermissionDenied.
C2_EntrySingleUse ==
    /\ \A t \in Threads : Consumed(ic[t]) => ic[t].srcWas = "armed"
    /\ \A k \in EcdhKeys : reg[k].state = "read" => ~DictContains(ecdhs, k)
    /\ \A t \in Threads :
          LET c == ic[t] IN
          (/\ c.pc \in {"process", "callback", "done"}
           /\ c.own.state = "read" /\ c.own.v \in DerivedKeys
           /\ c.star.state # "armed") =>
              /\ ~Consumed(c)
              /\ c.pc = "done" /\ c.status = EPERM /\ c.response = NoReply

\* The second call is refused while the first one, which consumed the
\* entry, has not yet replied.
C2_Witness ==
    \E t, u \in Threads :
        /\ ic[t].pc = "callback" /\ ic[t].src = ic[t].peer
        /\ ic[u].pc = "done" /\ ic[u].peer = ic[t].peer
        /\ ic[u].own.state = "read" /\ ic[u].own.v \in DerivedKeys
        /\ ic[u].own.n = ic[t].own.n
        /\ ic[u].status = EPERM

\* C3: no registration is returned by two reads, and of two calls of the
\* same peer that looked up the same registration of the peer's key (with
\* no unread "*" entry for the one that came second) at most one has
\* observed the entry; the other one has ended with PermissionDenied.
C3_ConcurrentCallsOneObserves ==
    /\ \A k \in EcdhKeys : reg[k].gets <= 1
    /\ \A t, u \in Threads :
          (/\ t # u
           /\ ic[t].peer = ic[u].peer
           /\ ic[t].pc \in {"process", "callback", "done"}
           /\ ic[u].pc \in {"process", "callback", "done"}
           /\ ic[t].src = ic[t].peer
           /\ ic[u].own.n = ic[t].own.n
           /\ ic[u].star.state # "armed") =>
              /\ ~Consumed(ic[u])
              /\ ic[u].pc = "done" /\ ic[u].status = EPERM

\* Both calls are in progress at once: the second is refused while the
\* first is inside the callback.
C3_Witness ==
    /\ ic[1].pc = "callback" /\ ic[1].src = ic[1].peer
    /\ ic[2].pc = "done" /\ ic[2].peer = ic[1].peer
    /\ ic[2].own.n = ic[1].own.n /\ ic[2].own.n = 1
    /\ ic[2].lookupAt = ic[1].lookupAt
    /\ ~Consumed(ic[2]) /\ ic[2].status = EPERM

\* C6: a call whose entry holds None ends with Unauthenticated, which no
\* other path produces; it returns no certificate and the callback is not
\* invoked.
C6_PendingIsUnauthenticated ==
    \A t \in Threads :
        LET c == ic[t] IN
        /\ (c.pc \in {"process", "callback", "done"} /\ Consumed(c)
               /\ c.ecdh = None) =>
              /\ c.pc # "callback" /\ c.cbCalls = 0 /\ c.response = NoReply
              /\ c.pc = "done" => c.status = EWAIT
        /\ (c.pc = "done" /\ c.status = EWAIT) => (Consumed(c) /\ c.ecdh = None)

C6_Witness ==
    \E t \in Threads :
        /\ ic[t].pc = "done" /\ ic[t].src = ic[t].peer
        /\ ic[t].own.v = None /\ ic[t].ecdh = None
        /\ ic[t].status = EWAIT

C8_ScenarioB ==
    \A t \in Threads :
        LET c == ic[t] IN
        (/\ c.pc \in {"del", "getstar", "delstar", "process", "callback", "done"}
         /\ c.own.state = "armed" /\ c.own.prev = None
         /\ c.own.v \in DerivedKeys
         /\ c.lookupAt - c.own.at <= MascTimeout
         /\ OpensUnder(c.req, c.own.v)
         /\ c.req.EncryptedCSR.pt = "csr_san") =>
            /\ c.pc \in {"del", "process", "callback", "done"}
            /\ c.ecdh = c.own.v
            /\ c.pc = "done" =>
                  /\ c.src = c.peer
                  /\ c.cbCalls = 1
                  /\ c.status = (IF c.cbResult THEN OK ELSE EPERM)
                  /\ c.cbResult =>
                        /\ c.response.EncryptedClientCertificate =
                              ChaChaEncrypt(c.own.v, Nonce("c1"),
                                  PemFromRsaCertificate(IssuedFor(c.req)),
                                  Nonce("c1"))
                        /\ c.response.EncryptedServerCertificate =
                              ChaChaEncrypt(c.own.v, Nonce("s1"),
                                  PemFromRsaCertificate(ServerCertificate),
                                  Nonce("s1"))

C8_Witness ==
    \E t \in Threads :
        /\ ic[t].pc = "done" /\ ic[t].own.state = "armed"
        /\ ic[t].own.prev = None /\ ic[t].own.v = "K1"
        /\ ic[t].status = OK /\ ic[t].response = Response("K1", IssuedFor(ic[t].req))

C10_MalformedCsrInvalidArgument ==
    \A t \in Threads :
        LET c == ic[t] IN
        (/\ c.pc \in {"callback", "done"} /\ Consumed(c)
         /\ c.ecdh \in DerivedKeys
         /\ OpensUnder(c.req, c.ecdh)
         /\ c.req.EncryptedCSR.pt = "not_a_csr") =>
            /\ c.pc = "done" /\ c.status = EINVAL
            /\ c.response = NoReply /\ c.cbCalls = 0
            /\ NotReAdded(c, c.src) => ~DictContains(ecdhs, c.src)

C10_Witness ==
    \E t \in Threads :
        /\ ic[t].pc = "done" /\ ic[t].src = ic[t].peer
        /\ ic[t].ecdh = "K1" /\ OpensUnder(ic[t].req, "K1")
        /\ ic[t].req.EncryptedCSR.pt = "not_a_csr"
        /\ ic[t].status = EINVAL

\* C11: a call whose certificate-issued callback returned false ends with
\* PermissionDenied and its caller receives no reply, although the
\* certificate had been computed; a call is answered with success, and its
\* caller receives the reply, only if the callback was called and returned
\* true.
C11_CallbackFalseDenied ==
    \A t \in Threads :
        LET c == ic[t] IN
        /\ (c.pc = "done" /\ c.cbCalls > 0 /\ ~c.cbResult) =>
              c.status = EPERM /\ c.response = NoReply
        /\ (c.pc = "done" /\ (c.status = OK \/ c.response # NoReply)) =>
              /\ c.cbCalls = 1 /\ c.cbResult
              /\ c.status = OK /\ c.response = Response(c.ecdh, IssuedFor(c.req))
        /\ c.pc = "callback" => c.response = Response(c.ecdh, IssuedFor(c.req))

C11_Witness ==
    \E t \in Threads :
        /\ ic[t].pc = "done" /\ ic[t].cbCalls = 1 /\ ~ic[t].cbResult
        /\ ic[t].status = EPERM /\ ic[t].response = NoReply
        /\ ic[t].ecdh = "K1" /\ OpensUnder(ic[t].req, "K1")

\* The key's latest registration, as the call saw it at time at, was no
\* longer valid: there was none, it had been read, or it was made more
\* than 60 s before.
NotLive(r, at) == r.state # "armed" \/ at - r.at > MascTimeout

\* C12: a call that looks the peer up more than 60 s after the peer's most
\* recent add_ecdh, and finds no live "*" entry either, ends with
\* PermissionDenied without having read any entry, whether the peer's
\* entry held None or a completed ECDH.
C12_EntryExpiresAfterTimeout ==
    \A t \in Threads :
        LET c == ic[t] IN
        (/\ c.pc \in {"process", "callback", "done"}
         /\ c.own.n > 0
         /\ c.lookupAt - c.own.at > MascTimeout
         /\ NotLive(c.star, c.starAt)) =>
            /\ ~Consumed(c)
            /\ c.pc = "done" /\ c.status = EPERM /\ c.response = NoReply

\* The entry held None when it timed out (scenario C).
C12_Witness ==
    \E t \in Threads :
        LET c == ic[t] IN
        /\ c.pc = "done" /\ c.status = EPERM
        /\ c.own.state = "armed" /\ c.own.v = None
        /\ c.lookupAt - c.own.at > MascTimeout
        /\ c.star.state = "never"

\* The entry held a completed ECDH when it timed out.
C12_WitnessCompleted ==
    \E t \in Threads :
        LET c == ic[t] IN
        /\ c.pc = "done" /\ c.status = EPERM
        /\ c.own.state = "armed" /\ c.own.v = "K1"
        /\ c.lookupAt - c.own.at > MascTimeout
        /\ c.star.state = "never"

(***************************************************************************)
(* Properties of ServerPubkey.                                             *)
(***************************************************************************)
\* C4: no stored initiator key is returned by two reads, and of two calls
\* of the same peer that looked up the same ClientPubkey registration at
\* most one has obtained the key and gone on to the key agreement; the
\* other one has ended with PermissionDenied without running it.
C4_ConcurrentServerPubkeyOneObtains ==
    /\ \A p \in PeerIds : preg[p].gets <= 1
    /\ \A t, u \in Threads :
          (/\ t # u
           /\ sp[t].peer = sp[u].peer
           /\ sp[t].pc \in {"run", "callback", "done"}
           /\ sp[u].pc \in {"run", "callback", "done"}
           /\ sp[t].src = sp[t].peer
           /\ sp[u].own.n = sp[t].own.n) =>
              /\ sp[u].src = Unset /\ sp[u].ran = 0 /\ sp[u].cbCalls = 0
              /\ sp[u].pc = "done" /\ sp[u].status = EPERM

\* Both calls are in progress at once after the peer's only ClientPubkey:
\* the second is refused while the first is inside the callback.
C4_Witness ==
    /\ sp[1].pc = "callback" /\ sp[1].src = sp[1].peer
    /\ sp[2].pc = "done" /\ sp[2].peer = sp[1].peer
    /\ sp[2].own.n = sp[1].own.n /\ sp[2].own.n = 1
    /\ preg[sp[1].peer].n = 1
    /\ sp[2].lookupAt = sp[1].lookupAt
    /\ sp[2].src = Unset /\ sp[2].status = EPERM

\* C5: a ServerPubkey call that looks the peer up when the key of the
\* peer's latest ClientPubkey has already been read and deleted by a
\* ServerPubkey call ends with PermissionDenied, without key agreement or
\* callback, whatever became of the call that read the key.
C5_StoredKeyConsumedOnce ==
    \A t \in Threads :
        LET c == sp[t] IN
        c.own.state = "read" =>
            /\ c.pc = "done" /\ c.status = EPERM
            /\ c.src = Unset /\ c.ran = 0 /\ c.cbCalls = 0 /\ c.reply = Unset

\* The second of two calls in a row is refused after the first one was
\* rejected by the verification callback.
C5_Witness ==
    \E t \in Threads :
        LET c == sp[t] IN
        /\ c.pc = "done" /\ c.status = EPERM /\ c.own.state = "read"
        /\ c.before.peer = c.peer /\ c.before.src = c.peer
        /\ c.before.n = c.own.n /\ c.before.rejected

\* ... after the first one succeeded.
C5_WitnessFirstSucceeded ==
    \E t \in Threads :
        LET c == sp[t] IN
        /\ c.pc = "done" /\ c.status = EPERM /\ c.own.state = "read"
        /\ c.before.peer = c.peer /\ c.before.src = c.peer
        /\ c.before.n = c.own.n /\ c.before.status = OK

\* ... after the first one failed in the key agreement.
C5_WitnessFirstFailedInKeyAgreement ==
    \E t \in Threads :
        LET c == sp[t] IN
        /\ c.pc = "done" /\ c.status = EPERM /\ c.own.state = "read"
        /\ c.before.peer = c.peer /\ c.before.src = c.peer
        /\ c.before.n = c.own.n /\ c.before.ran = 1
        /\ c.before.cbCalls = 0 /\ c.before.status = EUNKNOWN

\* C13: the responder's public key is returned only if the verification
\* callback returned true, and a call whose callback returned false ends
\* with PermissionDenied.
C13_RejectedIsPermissionDenied ==
    \A t \in Threads :
        LET c == sp[t] IN
        /\ (c.pc = "done" /\ (c.status = OK \/ c.reply # Unset)) =>
              c.cbCalls = 1 /\ c.cbResult
        /\ (c.pc = "done" /\ c.cbCalls > 0 /\ ~c.cbResult) => c.status = EPERM

(***************************************************************************)
(* Properties of the timed store.                                          *)
(***************************************************************************)
\* The entries of d that have not timed out at time t: those set at most
\* StoreTimeout before.
Unexpired(d, t) == SelectSeq(d, LAMBDA e : t - e.then <= StoreTimeout)

Entries(d) == {d[i] : i \in 1..Len(d)}

\* C14: whenever a set, get or contains has completed, whether it returned
\* or raised, the store holds at most size_limit entries.
C14_CapacityInvariant ==
    last.op \in {"set", "get", "contains"} => Len(store) <= capacity

\* A set of a new key into a store that was full of unexpired entries.
C14_Witness ==
    /\ last.op = "set" /\ last.exc = "" /\ capacity >= 2
    /\ Len(last.before) = capacity
    /\ Unexpired(last.before, last.at) = last.before
    /\ ~DictContains(last.before, last.key)
    /\ Len(store) = capacity

\* C15: a get returns a value only if it is the value of the latest set of
\* the key, that set was made at most the timeout before, and its entry
\* was still in the store; a get made more than the timeout after the
\* latest set of the key raises KeyError; and every entry of the store
\* carries the time and value of the latest set of its key, whatever was
\* read in between.
C15_GetReturnsLatestUnexpiredSet ==
    /\ (last.op = "get" /\ last.exc = "") =>
          LET s == lastSet[last.key] IN
          /\ s.at >= 0 /\ last.result = s.v
          /\ last.at - s.at <= StoreTimeout
          /\ [k |-> last.key, then |-> s.at, v |-> s.v] \in Entries(last.before)
    /\ (last.op = "get" /\ lastSet[last.key].at >= 0
           /\ last.at - lastSet[last.key].at > StoreTimeout) =>
          last.exc = "KeyError"
    /\ \A e \in Entries(store) :
          e.then = lastSet[e.k].at /\ e.v = lastSet[e.k].v

\* A get finds the entry of the key in the store, timed out.
C15_Witness ==
    /\ last.op = "get" /\ last.exc = "KeyError"
    /\ DictContains(last.before, last.key)
    /\ last.at - lastSet[last.key].at > StoreTimeout

\* A get returns the overwritten value at the very end of its lifetime.
C15_WitnessReturned ==
    /\ last.op = "get" /\ last.exc = "" /\ last.result = "v2"
    /\ last.at - lastSet[last.key].at = StoreTimeout

\* C16: the unexpired entries an operation evicts were all set no later
\* than the ones it keeps (the entry of the key being set apart), and a
\* get leaves the entries it keeps in the order they were in.
C16_EvictsOldestFirst ==
    (last.op \in {"set", "get", "contains"} /\ last.exc = "") =>
        LET live == Entries(Unexpired(last.before, last.at))
            others == {e \in live : ~(last.op = "set" /\ e.k = last.key)}
            evicted == {e \in others : ~DictContains(store, e.k)}
            kept == {e \in others : DictContains(store, e.k)}
        IN  /\ \A e \in evicted, f \in kept : e.then <= f.then
            /\ last.op = "get" =>
                  store = SelectSeq(last.before,
                                    LAMBDA e : DictContains(store, e.k))

\* C17: a set of a key that has an unexpired entry completes, stores the
\* value under the key and leaves every other unexpired entry in the
\* store.
C17_OverwriteEvictsNothing ==
    (last.op = "set"
        /\ DictContains(Unexpired(last.before, last.at), last.key)) =>
        /\ last.exc = ""
        /\ DictContains(store, last.key)
        /\ DictGetItem(store, last.key).v = last.value
        /\ \A e \in Entries(Unexpired(last.before, last.at)) :
              e.k # last.key => e \in Entries(store)

\* C18: every set completes without error, and a get of the key at the
\* same instant returns the value.
C18_SetNeverFails ==
    last.op = "set" =>
        /\ last.exc = ""
        /\ LET d == TimedGetTrim(store, last.at, StoreTimeout, capacity)
           IN  DictContains(d, last.key)
               /\ DictGetItem(d, last.key).v = last.value

\* C19: a contains on a store of size_limit 1 or more completes, leaves
\* exactly the unexpired entries in the store, and answers whether the key
\* had an unexpired entry.
C19_ContainsEvictsOnlyExpired ==
    (last.op = "contains" /\ capacity >= 1) =>
        /\ last.exc = ""
        /\ store = Unexpired(last.before, last.at)
        /\ last.result = DictContains(Unexpired(last.before, last.at), last.key)

(***************************************************************************)
(* Scenario D.                                                             *)
(***************************************************************************)
\* The peers whose key a ServerPubkey lookup made now would find.
Retrievable ==
    {p \in ScenarioPeers :
        DictContains(TimedGetTrim(peers, now, EcdhTimeout, EcdhSizeLimit), p)}

FirstPeer == ScenarioPeerNames[1]

\* C20: at every instant at most 16 peers have a retrievable key; once
\* the 17 peers have called ClientPubkey within 60 s, and before any key is
\* read, the retrievable keys are those of all peers but the first; a
\* ServerPubkey call of the first peer ends with PermissionDenied, and one
\* of any other peer, made within 60 s of its ClientPubkey, obtains the
\* peer's key and succeeds if the verification callback accepts.
C20_ScenarioD ==
    /\ Cardinality(Retrievable) <= EcdhSizeLimit
    /\ (/\ nPubkeys = ScenarioSize
        /\ now - preg[FirstPeer].at <= EcdhTimeout
        /\ \A p \in ScenarioPeers : preg[p].state = "armed") =>
           Retrievable = ScenarioPeers \ {FirstPeer}
    /\ LET c == sp[1] IN
       /\ (c.pc \in {"run", "callback", "done"} /\ c.peer = FirstPeer) =>
             c.pc = "done" /\ c.status = EPERM /\ c.src = Unset
       /\ (/\ c.pc \in {"run", "callback", "done"}
           /\ c.peer # FirstPeer
           /\ c.own.state = "armed"
           /\ c.lookupAt - c.own.at <= EcdhTimeout) =>
             /\ c.src = c.peer /\ c.peer_pubkey = "A"
             /\ c.pc = "done" =>
                   c.cbCalls = 1 /\ (c.status = OK) = c.cbResult

\* With all 17 registrations within 60 s, the first peer is refused and
\* then the second one, whose registration is the oldest one left, is
\* served.
C20_Witness ==
    LET c == sp[1] IN
    /\ now - preg[FirstPeer].at <= EcdhTimeout
    /\ c.before.peer = FirstPeer /\ c.before.status = EPERM
    /\ c.pc = "done" /\ c.peer = ScenarioPeerNames[2] /\ c.status = OK

\* ... and so is the last one.
C20_WitnessLast ==
    LET c == sp[1] IN
    /\ now - preg[FirstPeer].at <= EcdhTimeout
    /\ c.pc = "done" /\ c.peer = ScenarioPeerNames[ScenarioSize]
    /\ c.status = OK

\* C23: every IssueCertificate call ends in a success reply or in one of
\* PermissionDenied, Unauthenticated, InvalidArgument, whatever fails in
\* the handler (a nonce that is not 12 bytes and a CSR without a Subject
\* Alternative Name included).
C23_NoFailureEscapes ==
    \A t \in Threads :
        ic[t].pc = "done" => ic[t].status \in {OK, EPERM, EWAIT, EINVAL}

\* The "*" entry as its latest add_ecdh wrote it is in the store.
StarStored ==
    /\ DictContains(ecdhs, Star)
    /\ DictGetItem(ecdhs, Star).v = reg[Star].v
    /\ DictGetItem(ecdhs, Star).then = reg[Star].at

\* C30: a call whose peer has a live entry of its own reads and deletes
\* that entry only, and the "*" entry stays as it was registered until a
\* call reads it as a fallback or it expires; a call whose peer has no live
\* entry while "*" has one reads and deletes the "*" entry and is served
\* from it; "*" is read only by calls whose peer had no live entry.
C30_StarOnlyAsFallback ==
    /\ \A t \in Threads :
        LET c == ic[t] IN
        c.pc \in {"process", "callback", "done"} =>
            /\ ~NotLive(c.own, c.lookupAt) =>
                  /\ c.src = c.peer /\ c.ecdh = c.own.v
                  /\ c.star = NoReg /\ c.starAt = 0
            /\ (NotLive(c.own, c.lookupAt) /\ ~NotLive(c.star, c.starAt)) =>
                  /\ c.src = Star /\ c.ecdh = c.star.v
                  /\ c.srcWas = "armed"
            /\ c.src = Star => NotLive(c.own, c.lookupAt)
    /\ ~NotLive(reg[Star], now) => StarStored

\* Both the peer's entry and "*" were live at the lookup: the call was
\* served from the peer's entry and "*" is still stored.
C30_Witness ==
    \E t \in Threads :
        LET c == ic[t] IN
        /\ c.pc = "done" /\ c.status = OK /\ c.src = c.peer
        /\ reg[Star].n = 1 /\ reg[Star].at <= c.lookupAt
        /\ ~NotLive(reg[Star], now) /\ StarStored

\* The peer had no entry and "*" had one: the call was served from "*".
C30_WitnessFallback ==
    \E t \in Threads :
        LET c == ic[t] IN
        /\ c.pc = "done" /\ c.status = OK /\ c.src = Star
        /\ c.own.state = "never" /\ ~DictContains(ecdhs, Star)

(***************************************************************************)
(* Properties of ClientPubkey and ServerPubkey.                            *)
(***************************************************************************)
\* C26: the store holds at most one key per peer; a ServerPubkey call that
\* reads the peer's entry performs the key agreement with the key of the
\* peer's latest ClientPubkey, also when an earlier key had not been read;
\* and a ServerPubkey call that finds the peer's latest key already read
\* ends with PermissionDenied without any key agreement.
C26_SecondKeyOverwrites ==
    /\ \A p \in PeerIds :
          Cardinality({i \in 1..Len(peers) : peers[i].k = p}) <= 1
    /\ \A t \in Threads :
        LET c == sp[t] IN
        /\ c.src # Unset =>
              /\ c.src = c.peer /\ c.peer_pubkey = c.own.v
              /\ c.ran <= 1
              /\ c.complete # NoComplete => c.complete.remote = c.own.v
        /\ (c.pc \notin {"idle", "get"} /\ c.own.state = "read") =>
              /\ c.pc = "done" /\ c.status = EPERM
              /\ c.src = Unset /\ c.ran = 0 /\ c.cbCalls = 0

\* The peer's first key was not read before its second key "B" arrived,
\* and the call obtained the responder's key after agreeing with "B".
C26_Witness ==
    \E t \in Threads :
        LET c == sp[t] IN
        /\ c.pc = "done" /\ c.status = OK
        /\ c.own.n = 2 /\ c.own.prev = "" /\ c.own.v = "B"
        /\ c.complete.remote = "B"

\* ... and the peer's next call is refused.
C26_WitnessFurther ==
    \E t \in Threads :
        LET c == sp[t] IN
        /\ c.before.peer = c.peer /\ c.before.n = 2 /\ c.before.status = OK
        /\ c.pc = "done" /\ c.status = EPERM /\ c.own.n = 2

\* The peer's key as its latest ClientPubkey wrote it is in the store.
KeyStored(p) ==
    /\ DictContains(peers, p)
    /\ DictGetItem(peers, p).v = preg[p].v
    /\ DictGetItem(peers, p).then = preg[p].at

\* C27: a ClientPubkey that races with a ServerPubkey of the same peer
\* takes effect before the call's read or after its delete, never between
\* them: while a call is between its read and its delete it holds the lock
\* and the stored key is the one it read; only a key that was read is ever
\* deleted; a key set after the delete stays stored until it is read or
\* expires; and if no key was set since the call's read, nothing is stored
\* for the peer.
C27_SetRaceSerialised ==
    /\ \A p \in PeerIds :
        /\ preg[p].state = "read" => preg[p].gets >= 1
        /\ (preg[p].state = "armed" /\ now - preg[p].at <= EcdhTimeout) =>
              KeyStored(p)
    /\ \A t \in Threads :
        LET c == sp[t] IN
        /\ c.pc = "del" =>
              /\ peersLock.owner = t
              /\ preg[c.peer].n = c.own.n
              /\ KeyStored(c.peer) /\ c.peer_pubkey = preg[c.peer].v
        /\ c.src # Unset =>
              /\ c.peer_pubkey = c.own.v
              /\ preg[c.peer].n = c.own.n => ~DictContains(peers, c.peer)

\* The call read "A", and the key "B" that arrived while the call was
\* still being served remains stored.
C27_Witness ==
    \E t \in Threads :
        LET c == sp[t] IN
        /\ c.pc \in {"run", "callback"} /\ c.peer_pubkey = "A"
        /\ c.own.n = 1 /\ preg[c.peer].n = 2 /\ preg[c.peer].v = "B"
        /\ KeyStored(c.peer)

\* The key "B" arrived before the call's read: the call used "B" and
\* nothing remains stored for the peer.
C27_WitnessLatest ==
    \E t \in Threads :
        LET c == sp[t] IN
        /\ c.pc \in {"run", "callback"} /\ c.peer_pubkey = "B"
        /\ c.own.n = 2 /\ c.own.prev = ""
        /\ ~DictContains(peers, c.peer)

(***************************************************************************)
(* Properties of the locking.                                              *)
(***************************************************************************)
\* C28: a store's lock is held only by a call that is between its lookup
\* and the end of its with block; a call that is in the key agreement or
\* the verification callback of ServerPubkey, or in the decryption,
\* issuance or callback of IssueCertificate, does not hold it, so that
\* while a call is in its callback a ClientPubkey or add_ecdh and the
\* lookup of another call wait for nothing but a call that is inside its
\* with block.
C28_LockOnlyAroundLookup ==
    /\ peersLock.owner # NoThread =>
          /\ peersLock.owner \in Threads
          /\ sp[peersLock.owner].pc = "del"
    /\ ecdhsLock.owner # NoThread =>
          /\ ecdhsLock.owner \in Threads
          /\ ic[ecdhsLock.owner].pc \in {"del", "getstar", "delstar"}
    /\ \A t \in Threads :
        /\ sp[t].pc \in {"run", "callback"} => peersLock.owner # t
        /\ ic[t].pc \in {"process", "callback"} => ecdhsLock.owner # t
    /\ \A t \in Threads :
        (sp[t].pc = "callback" /\ peersLock.owner = NoThread) =>
            /\ \A u \in Threads : sp[u].pc = "get" => ENABLED SpGet(u)
            /\ nPubkeys < MaxPubkeys =>
                  \A p \in PeerIds : ENABLED ClientPubkey(p, "A")
    /\ \A t \in Threads :
        (ic[t].pc = "callback" /\ ecdhsLock.owner = NoThread) =>
            /\ \A u \in Threads : ic[u].pc = "get" => ENABLED IcGet(u)
            /\ nAdds < MaxAdds =>
                  \A p \in PeerIds : ENABLED AddEcdh(p, "K1")

\* While one ServerPubkey call is in its callback, another peer's
\* ClientPubkey and ServerPubkey, both later than the first call's lookup,
\* have completed.
C28_Witness ==
    /\ sp[1].pc = "callback"
    /\ sp[2].pc = "done" /\ sp[2].status = OK /\ sp[2].peer # sp[1].peer
    /\ sp[2].own.at > sp[1].lookupAt

\* The same for add_ecdh and IssueCertificate.
C28_WitnessIssue ==
    /\ ic[1].pc = "callback"
    /\ ic[2].pc = "done" /\ ic[2].status = OK /\ ic[2].peer # ic[1].peer
    /\ ic[2].src = ic[2].peer /\ ic[2].own.at > ic[1].lookupAt

\* C29: every ServerPubkey and IssueCertificate call that a worker has
\* taken up ends, with a reply or a status, and a lock that is held is
\* released, so that a ClientPubkey or add_ecdh, which waits for the lock
\* only, gets it.
C29_EveryCallCompletes ==
    /\ \A t \in Threads :
        /\ (sp[t].pc \notin {"idle", "done"}) ~> (sp[t].pc = "done")
        /\ (ic[t].pc \notin {"idle", "done"}) ~> (ic[t].pc = "done")
    /\ (peersLock.owner # NoThread) ~> (peersLock = FreeLock)
    /\ (ecdhsLock.owner # NoThread) ~> (ecdhsLock = FreeLock)

\* Two calls of one peer were served by the two workers at the same time
\* (the second worker takes a call only while the first serves one): one
\* call was served, the other was refused, both have ended and the lock is
\* free.
C29_Witness ==
    /\ ic[1].pc = "done" /\ ic[2].pc = "done"
    /\ {ic[1].status, ic[2].status} = {OK, EPERM}
    /\ ic[1].peer = ic[2].peer
    /\ ic[1].lookupAt = ic[2].lookupAt
    /\ ecdhsLock = FreeLock


(***************************************************************************)
(* Properties of MASCClient.MASC.                                          *)
(***************************************************************************)
\* C21: a MASC() whose IssueCertificate call ended with Unauthenticated
\* raises TryAgain, and one whose call ended with PermissionDenied raises
\* Unauthorized; a MASC() that returns (raises nothing) is one whose call
\* ended with OK, and it returns the two certificates of the reply.
C21_RetryAndRejectionRaised ==
    \A t \in Threads :
        mc[t].pc = "done" =>
            /\ mc[t].status = EWAIT => mc[t].raised = "TryAgain"
            /\ mc[t].status = EPERM => mc[t].raised = "Unauthorized"
            /\ mc[t].raised = "" =>
                  /\ mc[t].status = OK
                  /\ mc[t].cert =
                        ic[t].response.EncryptedClientCertificate.pt.body
                  /\ mc[t].server_cert =
                        ic[t].response.EncryptedServerCertificate.pt.body
            /\ mc[t].raised # "" =>
                  mc[t].cert = NoCert /\ mc[t].server_cert = NoCert

\* A MASC() has raised TryAgain after its call ended with EWAIT.
C21_Witness ==
    \E t \in Threads :
        mc[t].pc = "done" /\ mc[t].status = EWAIT /\ mc[t].raised = "TryAgain"

\* A MASC() has raised Unauthorized after its call ended with EPERM.
C21_WitnessRejected ==
    \E t \in Threads :
        mc[t].pc = "done" /\ mc[t].status = EPERM
        /\ mc[t].raised = "Unauthorized"


\* A MASC() has returned the two certificates after its call ended with OK.
C21_WitnessReturned ==
    \E t \in Threads :
        mc[t].pc = "done" /\ mc[t].status = OK /\ mc[t].raised = ""
        /\ mc[t].cert # NoCert /\ mc[t].server_cert # NoCert

\* C22: every MASC() whose IssueCertificate call ended with an error status
\* raises TryAgain or Unauthorized.
C22_ErrorsCollapsed ==
    \A t \in Threads :
        (mc[t].pc = "done" /\ mc[t].status # OK) =>
            mc[t].raised \in {"TryAgain", "Unauthorized"}

\* C25: a MASC() of an initiator that holds the derived key of the entry
\* the responder read for its call, with a CSR that carries a Subject
\* Alternative Name and a callback that accepts, returns: the certificate
\* the responder sealed in its reply and the responder's own certificate;
\* the issued certificate carries the CSR's Subject Alternative Name,
\* subject and public key, and its issuer is the subject of the
\* responder's certificate.
C25_ScenarioA ==
    \A t \in Threads :
        LET c == ic[t]
            m == mc[t] IN
        (/\ m.pc = "done"
         /\ Consumed(c) /\ c.ecdh = m.key
         /\ CsrOf(m.csr).san # None
         /\ c.cbCalls = 1 /\ c.cbResult = TRUE) =>
            /\ m.raised = ""
            /\ m.cert = c.response.EncryptedClientCertificate.pt.body
            /\ m.cert = IssuedFor(c.req)
            /\ m.server_cert = ServerCertificate
            /\ m.cert.san = CsrFields[m.csr].san
            /\ m.cert.subject = CsrFields[m.csr].subject
            /\ m.cert.public_key = CsrFields[m.csr].public_key
            /\ m.cert.issuer = ServerCertificate.subject

\* A MASC() with the CSR for example.local has returned a certificate for
\* example.local issued by the responder.
C25_Witness ==
    \E t \in Threads :
        /\ mc[t].pc = "done" /\ mc[t].raised = "" /\ mc[t].csr = "csr_san"
        /\ ic[t].ecdh = mc[t].key /\ ic[t].cbResult = TRUE
        /\ mc[t].cert.san = "example.local"
        /\ mc[t].cert.issuer = "CN=responder CA"
        /\ mc[t].server_cert = ServerCertificate

\* A MASC() with the CSR of another name has returned a certificate for
\* that name.
C25_WitnessOther ==
    \E t \in Threads :
        /\ mc[t].pc = "done" /\ mc[t].raised = "" /\ mc[t].csr = "csr_other"
        /\ mc[t].cert.san = "other.local"


(***************************************************************************)
(* Properties of ECDHClient.ECDH.                                          *)
(***************************************************************************)
\* The PEM encodings of the public keys of the key pairs.
PublicPems == {PemFromEcPubkey(PublicKeyOf[k]) : k \in DOMAIN PublicKeyOf}

\* C24: an ECDH() whose ClientPubkey and ServerPubkey calls the responder
\* served with success returns a CompletedECDH whose derived key is the
\* derived key of the CompletedECDH the responder handed to its callback:
\* the responder derived it from the public key the initiator sent, the
\* initiator from the public key the responder returned.  Every message
\* of the exchange carries the PEM of a public key and nothing else:
\* never a private key.
C24_SameSecretBothSides ==
    /\ \A p \in PeerIds :
          (ec[p].pc = "done" /\ ec[p].status = OK) =>
              /\ ec[p].raised = ""
              /\ ec[p].complete.derived_key # {}
              /\ ec[p].complete.derived_key = ec[p].handed.derived_key
              /\ ec[p].handed.remote = PublicKeyOf[ec[p].private]
              /\ ec[p].complete.remote = ec[p].handed.public_key
    /\ \A m \in wire :
          /\ DOMAIN m = {"rpc", "peer", "pubkey"}
          /\ m.pubkey \in PublicPems
          /\ m.pubkey \notin DOMAIN PublicKeyOf

\* An ECDH() has returned the derived key that the responder's callback
\* was handed, and both of its messages have been sent.
C24_Witness ==
    \E p \in PeerIds :
        /\ ec[p].pc = "done" /\ ec[p].status = OK /\ ec[p].raised = ""
        /\ ec[p].private = "a"
        /\ ec[p].complete.derived_key = ec[p].handed.derived_key
        /\ ec[p].complete.derived_key = {"A", "S1"}
        /\ EcdhKeyMessage("ClientPubkey", p, "A") \in wire
        /\ EcdhKeyMessage("ServerPubkey", p, "S1") \in wire


(***************************************************************************)
(* The capacity of the pending store of MASCServicer.                      *)
(***************************************************************************)
\* The peers whose entry an IssueCertificate lookup made now would find.
Tracked ==
    {p \in PendingPeers :
        DictContains(TimedGetTrim(ecdhs, now, MascTimeout, MascSizeLimit), p)}

\* C31: at every instant at most 4 peers have an entry that a lookup would
\* find; once add_ecdh has been called for the five peers within 60 s, and
\* before any entry is read, the peers with an entry are all but the first;
\* an IssueCertificate call of the first peer ends with PermissionDenied
\* without reading an entry, and one of any other peer, made within 60 s of
\* its add_ecdh, reads the peer's entry.
C31_FifthPeerEvictsFirst ==
    /\ Cardinality(Tracked) <= MascSizeLimit
    /\ (/\ nAdds = PendingSize
        /\ now - reg[FirstPeer].at <= MascTimeout
        /\ \A p \in PendingPeers : reg[p].state = "armed") =>
           Tracked = PendingPeers \ {FirstPeer}
    /\ LET c == ic[1] IN
       /\ (c.pc \in {"process", "callback", "done"} /\ c.peer = FirstPeer) =>
             c.pc = "done" /\ c.status = EPERM /\ c.src = Unset
       /\ (/\ c.pc \in {"process", "callback", "done"}
           /\ c.peer # FirstPeer
           /\ c.own.state = "armed"
           /\ c.lookupAt - c.own.at <= MascTimeout) =>
             /\ c.src = c.peer /\ c.ecdh = c.own.v
             /\ (c.pc = "done" /\ c.ecdh = None) => c.status = EWAIT
             /\ (c.pc = "done" /\ c.ecdh # None) =>
                   c.cbCalls = 1
                   /\ c.status = (IF c.cbResult THEN OK ELSE EPERM)

\* With the five registrations within 60 s, the first peer is refused.
C31_Witness ==
    LET c == ic[1] IN
    /\ now - reg[FirstPeer].at <= MascTimeout
    /\ Tracked = PendingPeers \ {FirstPeer}
    /\ c.pc = "done" /\ c.peer = FirstPeer /\ c.status = EPERM

\* ... and the second one, whose registration is the oldest one left, is
\* served.
C31_WitnessKept ==
    LET c == ic[1] IN
    /\ now - reg[FirstPeer].at <= MascTimeout
    /\ c.pc = "done" /\ c.peer = ScenarioPeerNames[2] /\ c.status = OK


(***************************************************************************)
(* The certificate-issued callback.                                        *)
(***************************************************************************)
\* C32: within one IssueCertificate call the callback is invoked at most
\* once; when it has been invoked the call had read an entry holding a
\* completed ECDH, the request had opened under that ECDH's derived key and
\* its plaintext had parsed as a CSR; a call that ends with OK has invoked
\* it, and no call has invoked it before it reaches the callback; a call
\* that ended on the no-entry, pending, decryption-failure or malformed-CSR
\* path has not invoked it.
C32_CallbackOnceAfterChecks ==
    \A t \in Threads :
        LET c == ic[t]
            opened == /\ OpensUnder(c.req, c.ecdh)
                      /\ c.req.EncryptedCSRNonce.len = NonceLen
            parsed == ToRsaCsr(c.req.EncryptedCSR.pt).exc = "" IN
        /\ c.cbCalls <= 1
        /\ c.cbCalls = 1 =>
              /\ c.pc = "done"
              /\ Consumed(c) /\ c.ecdh \in DerivedKeys
              /\ opened /\ parsed
        /\ (c.pc = "done" /\ c.status = OK) => c.cbCalls = 1 /\ c.cbResult
        /\ c.pc \in {"get", "del", "getstar", "delstar", "process",
                     "callback"} => c.cbCalls = 0
        /\ (/\ c.pc = "done"
            /\ \/ ~Consumed(c)
               \/ c.ecdh = None
               \/ ~opened
               \/ ~parsed) => c.cbCalls = 0 /\ c.status # OK

\* A call has invoked the callback, which accepted, and ended with OK.
C32_Witness ==
    \E t \in Threads :
        ic[t].pc = "done" /\ ic[t].cbCalls = 1 /\ ic[t].cbResult
        /\ ic[t].status = OK

\* A call has invoked the callback, which refused.
C32_WitnessRefused ==
    \E t \in Threads :
        ic[t].pc = "done" /\ ic[t].cbCalls = 1 /\ ~ic[t].cbResult
        /\ ic[t].status = EPERM

\* A call whose request opened but carried no CSR has ended without
\* invoking the callback.
C32_WitnessMalformed ==
    \E t \in Threads :
        ic[t].pc = "done" /\ ic[t].status = EINVAL /\ ic[t].cbCalls = 0
        /\ OpensUnder(ic[t].req, ic[t].ecdh)

\* A call whose request did not open has ended without invoking the
\* callback.
C32_WitnessUnopened ==
    \E t \in Threads :
        ic[t].pc = "done" /\ ic[t].ecdh \in DerivedKeys
        /\ ~OpensUnder(ic[t].req, ic[t].ecdh) /\ ic[t].cbCalls = 0


(***************************************************************************)
(* Timestamps, expiry and deletion in the timed store.                     *)
(***************************************************************************)
\* C33: a set that completes leaves the key's entry with the time of the
\* set and the value set, whether or not the key had an entry; and when a
\* key was set at t0 and set again at t1, with t1 - t0 at most the timeout,
\* a get of the key made at most the timeout after t1, the entry not having
\* been deleted or evicted since, returns the value of the second set,
\* however long ago t0 is.
C33_OverwriteRefreshes ==
    /\ (last.op = "set" /\ last.exc = "") =>
          /\ DictContains(store, last.key)
          /\ DictGetItem(store, last.key).then = last.at
          /\ DictGetItem(store, last.key).v = last.value
    /\ LET s == lastSet[last.key] IN
       (/\ last.op = "get"
        /\ s.prev >= 0 /\ s.at - s.prev <= StoreTimeout
        /\ last.at - s.at <= StoreTimeout
        /\ DictContains(last.before, last.key)) =>
           last.exc = "" /\ last.result = s.v

\* A get returns the value of the second set of its key, made within the
\* timeout of the first, more than the timeout after the first set.
C33_Witness ==
    LET s == lastSet[last.key] IN
    /\ last.op = "get" /\ last.exc = "" /\ last.result = s.v
    /\ s.prev >= 0 /\ s.at - s.prev <= StoreTimeout /\ s.at > s.prev
    /\ last.at - s.at <= StoreTimeout
    /\ last.at - s.prev > StoreTimeout

\* A set has overwritten an unexpired entry of its key that was set
\* earlier.
C33_WitnessOverwrite ==
    /\ last.op = "set" /\ last.exc = ""
    /\ DictContains(last.before, last.key)
    /\ DictGetItem(last.before, last.key).then < last.at
    /\ DictGetItem(store, last.key).then = last.at

\* C34: a get of a key whose entry was set at most the timeout before,
\* exactly the timeout before included, returns the entry's value; a get
\* of a key whose entry was set more than the timeout before raises
\* KeyError and leaves the key without an entry.
C34_ExpiryStrict ==
    (last.op = "get" /\ DictContains(last.before, last.key)) =>
        LET e == DictGetItem(last.before, last.key) IN
        /\ last.at - e.then <= StoreTimeout =>
              last.exc = "" /\ last.result = e.v
        /\ last.at - e.then > StoreTimeout =>
              last.exc = "KeyError" /\ ~DictContains(store, last.key)

\* A get has returned an entry whose age is exactly the timeout.
C34_Witness ==
    /\ last.op = "get" /\ last.exc = ""
    /\ DictContains(last.before, last.key)
    /\ last.at - DictGetItem(last.before, last.key).then = StoreTimeout

\* A get has found an entry one second older than the timeout, and raised.
C34_WitnessExpired ==
    /\ last.op = "get" /\ last.exc = "KeyError"
    /\ DictContains(last.before, last.key)
    /\ last.at - DictGetItem(last.before, last.key).then = StoreTimeout + 1

\* C35: a del raises KeyError exactly when a get of the key made at the
\* same instant would have raised KeyError, and a del that completes
\* removes the entry of its key and no other.
C35_DeleteAgreesWithGet ==
    last.op = "del" =>
        LET seen == TimedGetTrim(last.before, last.at, StoreTimeout, capacity)
        IN  /\ (last.exc = "KeyError") = ~DictContains(seen, last.key)
            /\ last.exc = "" => store = DictDelItem(last.before, last.key)


(***************************************************************************)
(* The peer verification UI (hassmpris_agent/verify.py).                   *)
(*                                                                         *)
(* ECDHServicer's verification callback is AgentServer.verify_peer, which  *)
(* hands context.peer() and the derived key to PeerVerificationUI.verify   *)
(* on the worker thread of the ServerPubkey call.  The notification and    *)
(* dialog callbacks run on the GLib main loop, one at a time.  A peer is a *)
(* string, modelled as the sequence of its ":"-separated parts; a derived  *)
(* key has a fixed length, so it is one further part.                      *)
(***************************************************************************)
\* PeerVerificationUI() as server.py constructs it: max_pending_verifications.
MaxPendingVerifications == 4

\* context.peer() of the callers with the keys their exchanges derived: a
\* TCP peer, from two ports, and a peer on a UNIX socket, which has no port.
VerifyCalls ==
    ({<<"ipv4", "h1", "1">>, <<"ipv4", "h1", "2">>} \X {"K1", "K2"})
    \cup {<<<<"unix", "s">>, "K1">>}

\* A peer is kept with its port.
StripPortNever(peer) == peer

\* verify(): the port is stripped from the peer, when int(_, 10) accepts the
\* last part.
StripPort(peer) ==
    IF peer[Len(peer)] \in {"1", "2"} THEN SubSeq(peer, 1, Len(peer) - 1)
    ELSE peer

\* The key is left out.
PeerkeyPeerOnly(peer, key) == peer

\* peerkey(peer, key)
Peerkey(peer, key) == peer \o <<key>>

\* PeerVerificationUI(), and the worker threads that will call verify().
VerifyInit ==
    /\ now = 0 /\ NoStore /\ NoMasc /\ NoEcdh
    /\ mpris = FALSE /\ queues = <<>> /\ up = <<>> /\ del = <<>>
    /\ verifications = <<>> /\ verification_queue = <<>> /\ blocked = {}
    /\ idle = {} /\ open_notifications = {} /\ dialogs = {}
    /\ vf = [t \in Threads |->
                 [pc |-> "idle", raw |-> <<>>, peer |-> <<>>, key |-> Unset,
                  wasBlocked |-> FALSE, result |-> FALSE, decided |-> FALSE,
                  why |-> ""]]
    /\ accepts = {} /\ nVerifies = 0

\* __process_next_in_line: what is left of the queue, and the prompt given
\* to GLib.idle_add, if any.
RECURSIVE ProcessNextInLine(_, _)
ProcessNextInLine(queue, blk) ==
    IF queue = <<>> THEN [queue |-> <<>>, run |-> {}]
    ELSE IF Head(queue)[1] \in blk THEN ProcessNextInLine(Tail(queue), blk)
    ELSE [queue |-> Tail(queue), run |-> {Head(queue)}]

\* verify(peer, key) up to the with block
VfCall(t, raw, key) ==
    /\ vf[t].pc \in {"idle", "returned"}
    /\ vf' = [vf EXCEPT ![t] =
                  [pc |-> "calling", raw |-> raw, peer |-> StripPort(raw),
                   key |-> key, wasBlocked |-> StripPort(raw) \in blocked,
                   result |-> FALSE, decided |-> FALSE, why |-> ""]]
    /\ nVerifies' = nVerifies + 1
    /\ UNCHANGED <<verifications, verification_queue, blocked, idle,
                   open_notifications, dialogs, accepts>>

\* verify: the with block
VfLocked(t) ==
    /\ vf[t].pc = "calling"
    /\ LET peer == vf[t].peer
           pk == Peerkey(peer, vf[t].key)
           next == ProcessNextInLine(
                       Append(verification_queue, <<peer, vf[t].key>>),
                       blocked)
       IN  IF peer \in blocked
           THEN /\ vf' = [vf EXCEPT ![t].pc = "returned", ![t].why = "blocked"]
                /\ UNCHANGED <<verifications, verification_queue, idle>>
           ELSE IF Len(verification_queue) > MaxPendingVerifications
           THEN /\ vf' = [vf EXCEPT ![t].pc = "returned", ![t].why = "full"]
                /\ UNCHANGED <<verifications, verification_queue, idle>>
           ELSE IF pk \in DOMAIN verifications
           THEN /\ vf' = [vf EXCEPT ![t].pc = "waiting"]
                /\ UNCHANGED <<verifications, verification_queue, idle>>
           ELSE /\ vf' = [vf EXCEPT ![t].pc = "waiting"]
                /\ verifications' = verifications @@ (pk :> [value |-> FALSE, event |-> FALSE])
                /\ verification_queue' = next.queue
                /\ idle' = idle \cup next.run
    /\ UNCHANGED <<blocked, open_notifications, dialogs, accepts, nVerifies>>

\* verify: return q.get(timeout=self.verify_timeout), once the event is set
\* or the timeout has passed
VfReturn(t) ==
    /\ vf[t].pc = "waiting"
    /\ LET q == verifications[Peerkey(vf[t].peer, vf[t].key)]
       IN  vf' = [vf EXCEPT ![t].pc = "returned", ![t].result = q.value,
                            ![t].decided = q.event, ![t].why = "waited"]
    /\ UNCHANGED <<verifications, verification_queue, blocked, idle,
                   open_notifications, dialogs, accepts, nVerifies>>

\* accept, reject and block as the callbacks call them: ACCEPT is accept,
\* BLOCK is reject and then block, anything else is reject.
Respond(peer, key, response) ==
    /\ verifications' =
           [verifications EXCEPT ![Peerkey(peer, key)] =
                [value |-> response = "ACCEPT", event |-> TRUE]]
    /\ blocked' = IF response = "BLOCK" THEN blocked \cup {peer} ELSE blocked
    /\ accepts' = IF response = "ACCEPT" THEN accepts \cup {<<peer, key>>}
                  ELSE accepts

\* __start_verification, run by the main loop
StartVerification(pair) ==
    /\ pair \in idle
    /\ idle' = idle \ {pair}
    /\ open_notifications' = open_notifications \cup
           {[peer |-> pair[1], key |-> pair[2],
             continue_with_next_on_close |-> TRUE, invoked |-> FALSE]}
    /\ UNCHANGED <<verifications, verification_queue, blocked, dialogs, vf,
                   accepts, nVerifies>>

\* An action of a notification is invoked: continue_, reject or block.
NotificationAction(n, action) ==
    /\ n \in open_notifications /\ ~n.invoked
    /\ IF action = "verify"
       THEN /\ open_notifications' = (open_notifications \ {n}) \cup
                   {[n EXCEPT !.continue_with_next_on_close = FALSE,
                              !.invoked = TRUE]}
            /\ dialogs' = dialogs \cup {<<n.peer, n.key>>}
            /\ UNCHANGED <<verifications, blocked, accepts>>
       ELSE /\ open_notifications' = (open_notifications \ {n}) \cup
                   {[n EXCEPT !.invoked = TRUE]}
            /\ Respond(n.peer, n.key,
                       IF action = "block" THEN "BLOCK" ELSE "REJECT")
            /\ UNCHANGED dialogs
    /\ UNCHANGED <<verification_queue, idle, vf, nVerifies>>

\* closed: the notification has timed out, was dismissed, or has gone after
\* one of its actions
NotificationClosed(n) ==
    /\ n \in open_notifications
    /\ open_notifications' = open_notifications \ {n}
    /\ LET next == ProcessNextInLine(verification_queue, blocked)
       IN  IF n.continue_with_next_on_close
           THEN verification_queue' = next.queue /\ idle' = idle \cup next.run
           ELSE UNCHANGED <<verification_queue, idle>>
    /\ UNCHANGED <<verifications, blocked, dialogs, vf, accepts, nVerifies>>

\* __verification_response
VerificationResponse(d, response) ==
    /\ d \in dialogs
    /\ dialogs' = dialogs \ {d}
    /\ Respond(d[1], d[2], response)
    /\ LET next == ProcessNextInLine(verification_queue, blocked')
       IN  verification_queue' = next.queue /\ idle' = idle \cup next.run
    /\ UNCHANGED <<open_notifications, vf, nVerifies>>

VerifyNext ==
    \/ \E t \in Threads, call \in VerifyCalls :
          nVerifies < MaxVerifies /\ VfCall(t, call[1], call[2])
    \/ \E t \in Threads : VfLocked(t)
    \/ \E t \in Threads : VfReturn(t)
    \/ \E pair \in idle : StartVerification(pair)
    \/ \E n \in open_notifications, action \in {"verify", "reject", "block"} :
          NotificationAction(n, action)
    \/ \E n \in open_notifications : NotificationClosed(n)
    \/ \E d \in dialogs, response \in {"ACCEPT", "REJECT", "BLOCK", "ESCAPE"} :
          VerificationResponse(d, response)

SpecVerify ==
    VerifyInit
    /\ [][VerifyNext /\ UNCHANGED <<now, mascVars, ecdhVars, storeVars,
                                    clientVars, mpris, queues, up, del>>]_vars


(***************************************************************************)
(* The verification UI with more peers than it means to keep waiting:      *)
(* one caller verifies one pair after the other, each a different peer or  *)
(* key, while the user answers some prompts and leaves others alone.       *)
(***************************************************************************)
PromptCalls ==
    <<<<<<"ipv4", "h1", "1">>, "K1">>, <<<<"ipv4", "h1", "1">>, "K2">>,
      <<<<"ipv4", "h2", "1">>, "K1">>, <<<<"ipv4", "h2", "1">>, "K2">>,
      <<<<"ipv4", "h3", "1">>, "K1">>, <<<<"ipv4", "h3", "1">>, "K2">>>>

PromptsNext ==
    \/ /\ nVerifies < Len(PromptCalls)
       /\ VfCall(1, PromptCalls[nVerifies + 1][1], PromptCalls[nVerifies + 1][2])
    \/ VfLocked(1)
    \/ VfReturn(1)
    \/ \E pair \in idle : StartVerification(pair)
    \/ \E n \in open_notifications : NotificationAction(n, "verify")
    \/ \E n \in open_notifications : NotificationClosed(n)
    \/ \E d \in dialogs, response \in {"ACCEPT", "REJECT"} :
          VerificationResponse(d, response)

SpecPrompts ==
    VerifyInit
    /\ [][PromptsNext /\ UNCHANGED <<now, mascVars, ecdhVars, storeVars,
                                     clientVars, mpris, queues, up, del>>]_vars

(***************************************************************************)
(* Properties of PeerVerificationUI.                                       *)
(***************************************************************************)
\* The peer a caller is, whatever port it calls from.
HostOf(raw) ==
    IF Len(raw) = 3 /\ raw[1] = "ipv4" THEN <<raw[1], raw[2]>> ELSE raw

\* C36: verify(peer, key) returns True only if accept was called for that
\* same pair of port-stripped peer and key and the peer was not blocked when
\* verify was called; when no decision has arrived by the time the wait
\* ends, it returns False.
C36_TrueOnlyIfAccepted ==
    \A t \in Threads :
        vf[t].pc = "returned" =>
            /\ vf[t].result =>
                   /\ <<HostOf(vf[t].raw), vf[t].key>> \in accepts
                   /\ ~vf[t].wasBlocked
            /\ ~vf[t].decided => ~vf[t].result

\* A verify has returned True while another pair than its own had been
\* accepted too.
C36_Witness ==
    \E t \in Threads :
        /\ vf[t].pc = "returned" /\ vf[t].result
        /\ \E p \in accepts : p # <<HostOf(vf[t].raw), vf[t].key>>

\* A verify has waited and returned without a decision, while another pair
\* had been accepted.
C36_WitnessTimeout ==
    \E t \in Threads :
        /\ vf[t].pc = "returned" /\ vf[t].why = "waited" /\ ~vf[t].decided
        /\ accepts # {}

\* C37: once block(peer) has been called, every later verify for that peer,
\* with any key and from any port, returns False, creates no verification
\* entry and schedules no prompt, even if the pair was accepted earlier.
C37_BlockedPeerRefused ==
    [][\A t \in Threads :
          (/\ vf[t].pc = "calling" /\ vf'[t].pc # "calling"
           /\ \E b \in blocked : HostOf(b) = HostOf(vf[t].raw))
          => /\ vf'[t].pc = "returned" /\ ~vf'[t].result
             /\ UNCHANGED <<verifications, verification_queue, idle,
                            open_notifications, dialogs>>]_vars

\* A verify for an accepted pair was refused because its peer is blocked.
C37_Witness ==
    \E t \in Threads :
        /\ vf[t].pc = "returned" /\ vf[t].why = "blocked" /\ ~vf[t].result
        /\ <<HostOf(vf[t].raw), vf[t].key>> \in accepts
        /\ verifications[Peerkey(vf[t].peer, vf[t].key)].value

\* The prompts that await a decision: scheduled, notified or in a dialog.
Awaiting ==
    idle \cup {<<n.peer, n.key>> : n \in {m \in open_notifications : ~m.invoked}}
         \cup dialogs

\* C38: the number of prompts awaiting a decision never exceeds
\* max_pending_verifications + 1.
C38_PromptsBounded == Cardinality(Awaiting) <= MaxPendingVerifications + 1


(***************************************************************************)
(* The streams of the MPRIS servicer (hassmpris_agent/mpris/grpc.py).      *)
(*                                                                         *)
(* Each Updates call is served on a worker thread and relays what arrives  *)
(* on a queue of its own; __del__, which stop() and the handler of the     *)
(* mpris-shutdown signal call, puts None on the queues registered at that  *)
(* moment and then deletes the mpris attribute.  A queue is the sequence   *)
(* of what has been put on it and not yet taken; of the heartbeats a       *)
(* stream yields, whether their number is odd is kept.  The player         *)
(* signals, which put further updates on the queues, are left out.         *)
(***************************************************************************)
\* The Updates calls of one behaviour.
Streams == {1, 2}
\* The callers of __del__.
Deleters == {"stop", "signal"}

\* MPRISServicer(mpris)
MprisInit ==
    /\ now = 0 /\ NoStore /\ NoMasc /\ NoEcdh
    /\ verifications = <<>> /\ verification_queue = <<>> /\ blocked = {}
    /\ idle = {} /\ open_notifications = {} /\ dialogs = {} /\ vf = <<>>
    /\ accepts = {} /\ nVerifies = 0
    /\ mpris = TRUE /\ queues = <<>>
    /\ up = [s \in Streams |-> [pc |-> "idle", q |-> <<>>, beat |-> FALSE]]
    /\ del = [d \in Deleters |-> [pc |-> "idle", queues |-> <<>>]]

\* One step of the Updates call s, with_mpris included.
UpdatesStep(s) ==
    /\ \/ /\ up[s].pc = "idle"
          \* with_mpris: if not hasattr(self, "mpris"): context.abort(...)
          /\ up' = [up EXCEPT ![s].pc = IF mpris THEN "players" ELSE "aborted"]
          /\ UNCHANGED queues
       \/ /\ up[s].pc = "players"
          \* q = Queue(); self.mpris.get_players() raises AttributeError when
          \* the attribute has gone; else the empty reply is put
          /\ up' = [up EXCEPT ![s].pc = IF mpris THEN "register" ELSE "failed",
                              ![s].q = IF mpris THEN <<"reply">> ELSE <<>>]
          /\ UNCHANGED queues
       \/ /\ up[s].pc = "register"
          \* with self.queues_lock: self.queues.append(q)
          /\ queues' = Append(queues, s)
          /\ up' = [up EXCEPT ![s].pc = "get"]
       \/ /\ up[s].pc = "get" /\ up[s].q # <<>>
          \* m = q.get(timeout=10); None ends the loop, anything else is
          \* yielded
          /\ up' = [up EXCEPT ![s].q = Tail(@),
                              ![s].pc = IF Head(up[s].q) = None THEN "finally"
                                        ELSE "get"]
          /\ UNCHANGED queues
       \/ /\ up[s].pc = "get" /\ up[s].q = <<>>
          \* except QueueEmpty: after 10 s a heartbeat is yielded
          /\ up' = [up EXCEPT ![s].beat = ~@]
          /\ UNCHANGED queues
       \/ /\ up[s].pc = "finally"
          \* with self.queues_lock: self.queues.remove(q)
          /\ queues' = SelectSeq(queues, LAMBDA x : x # s)
          /\ up' = [up EXCEPT ![s].pc = "done"]
    /\ UNCHANGED <<mpris, del>>

\* One step of __del__ as d calls it, _push_to_queues(None) included.
DelStep(d) ==
    /\ \/ /\ del[d].pc = "idle"
          \* the connections are disconnected
          /\ del' = [del EXCEPT ![d].pc = "snapshot"]
          /\ UNCHANGED <<mpris, up>>
       \/ /\ del[d].pc = "snapshot"
          \* with self.queues_lock: queues = list(self.queues)
          /\ del' = [del EXCEPT ![d] = [pc |-> "put", queues |-> queues]]
          /\ UNCHANGED <<mpris, up>>
       \/ /\ del[d].pc = "put" /\ del[d].queues # <<>>
          \* for q in queues: q.put(m)
          /\ up' = [up EXCEPT ![Head(del[d].queues)].q = Append(@, None)]
          /\ del' = [del EXCEPT ![d].queues = Tail(@)]
          /\ UNCHANGED mpris
       \/ /\ del[d].pc = "put" /\ del[d].queues = <<>>
          \* if hasattr(self, "mpris"): delattr(self, "mpris")
          /\ mpris' = FALSE
          /\ del' = [del EXCEPT ![d].pc = "done"]
          /\ UNCHANGED up
    /\ UNCHANGED queues

\* A call that is being served goes on, and so does a __del__ that has
\* begun; nothing makes a client call Updates or the agent stop.
SpecMprisFair ==
    /\ MprisInit
    /\ [][/\ \/ \E s \in Streams : UpdatesStep(s)
              \/ \E d \in Deleters : DelStep(d)
           /\ UNCHANGED <<now, mascVars, ecdhVars, storeVars, clientVars,
                          verifications, verification_queue, blocked, idle,
                          open_notifications, dialogs, vf, accepts,
                          nVerifies>>]_vars
    /\ \A s \in Streams :
           WF_<<mpris, queues, up, del>>(up[s].pc # "idle" /\ UpdatesStep(s))
    /\ \A d \in Deleters :
           WF_<<mpris, queues, up, del>>(del[d].pc # "idle" /\ DelStep(d))

(***************************************************************************)
(* Properties of the Updates streams.                                      *)
(***************************************************************************)
\* No Updates call is being served and no queue is registered.
StreamsOver ==
    /\ queues = <<>>
    /\ \A s \in Streams : up[s].pc \in {"idle", "aborted", "failed", "done"}

\* C39: once a __del__ has run to its end, every Updates stream eventually
\* terminates and its queue is no longer registered.
C39_StreamsEnd == (\E d \in Deleters : del[d].pc = "done") ~> StreamsOver

=============================================================================
